---- MODULE Spec2Model ----
(***************************************************************************)
(* Budget tracker: the transaction store kept by the Index page, the       *)
(* add-transaction form that feeds it, the localStorage persistence done   *)
(* by the page's effects, and the per-currency aggregation computed on     *)
(* every render.                                                           *)
(***************************************************************************)
EXTENDS Integers, Sequences, FiniteSets, TLC

VARIABLES
    pc,               \* position in the mount sequence of Index, then "idle"
    transactions,     \* useState<Transaction[]>([])
    showAddForm,      \* useState(false)
    defaultCurrency,  \* useState('USD')
    formData,         \* state of AddTransactionForm (initial while unmounted)
    localStorage,     \* the two keys the page reads and writes
    queued,           \* state updates queued by the load effect, applied at the next render
    clock,            \* last value read from Date.now()
    searchTerm,       \* TransactionList: useState('')
    filterType,       \* TransactionList: useState('all')
    filterCategory,   \* TransactionList: useState('all')
    filterCurrency,   \* TransactionList: useState('all')
    sortBy,           \* TransactionList: useState('date')
    period,           \* SpendingLineChart: the period prop
    chartCurrency,    \* SpendingLineChart: the currency prop
    timezone,         \* the host's offset from UTC in minutes, east positive
    selectedCurrency, \* TransactionChart: useState(defaultCurrency)
    isExporting,      \* ChartExportButton: useState(false), one per button
    inFlight,         \* per button, the handleExport calls awaiting their capture
    isExportingAll,   \* Index: useState(false)
    exportAll,        \* position and locals of the running handleExportAllCharts
    documentBody,     \* how many temporary nodes of each kind document.body holds
    toast,            \* the notification on screen, <<>> when none
    downloads,        \* number of files handed to the browser for download
    multi,            \* position and locals of the running exportMultipleCharts
    saved             \* the last file handed to the browser, <<>> when none

\* State of the components below the page; the page's own handlers never
\* write it.
listVars == <<searchTerm, filterType, filterCategory, filterCurrency, sortBy>>

trendVars == <<period, chartCurrency, timezone>>

chartVars == <<selectedCurrency>>

exportVars == <<isExporting, inFlight, isExportingAll, exportAll, documentBody,
                toast, downloads, multi, saved>>

viewVars == <<listVars, trendVars, chartVars, exportVars>>

vars == <<pc, transactions, showAddForm, defaultCurrency, formData,
          localStorage, queued, clock, viewVars>>

\* The two ChartExportButtons, named by the tab that holds them.
Buttons == {"expenses", "trends"}

\* The components' state after construction.
ListInit ==
    /\ searchTerm = ""
    /\ filterType = "all"
    /\ filterCategory = "all"
    /\ filterCurrency = "all"
    /\ sortBy = "date"

TrendInit ==
    /\ period = "monthly"
    /\ chartCurrency = "USD"
    /\ timezone = 0

NoExportAll == [pc |-> "idle"]

NoExportMultiple == [pc |-> "idle"]

ExportInit ==
    /\ isExporting = [b \in Buttons |-> FALSE]
    /\ inFlight = [b \in Buttons |-> <<>>]
    /\ isExportingAll = FALSE
    /\ exportAll = NoExportAll
    /\ documentBody = [tempContainer |-> 0, loadingDiv |-> 0, tempRoot |-> 0]
    /\ toast = <<>>
    /\ downloads = 0
    /\ multi = NoExportMultiple
    /\ saved = <<>>

ViewInit ==
    /\ ListInit
    /\ TrendInit
    /\ selectedCurrency = "USD"
    /\ ExportInit

(***************************************************************************)
(* Bounds                                                                  *)
(***************************************************************************)
\* Largest number of records kept in the store.
MaxLen == 2

\* Largest value the millisecond clock reaches.
MaxClock == 3

(***************************************************************************)
(* Reference data                                                          *)
(***************************************************************************)
INCOME_CATEGORIES == <<"Salary">>

EXPENSE_CATEGORIES == <<"Food & Dining">>

CURRENCIES == <<"USD", "EUR">>

Range(s) == {s[i] : i \in DOMAIN s}

\* new Date().toISOString().split('T')[0]: every clock value of the model
\* lies within one day.
Today(now) == "2024-01-05"

(***************************************************************************)
(* Text <-> number conversions                                             *)
(***************************************************************************)
Digits == <<"0", "1", "2", "3", "4", "5", "6", "7", "8", "9">>

DigitSet == Range(Digits)

DigitValue(c) == (CHOOSE i \in DOMAIN Digits : Digits[i] = c) - 1

NaN == "NaN"

RECURSIVE NatToText(_)
NatToText(n) ==
    IF n < 10 THEN <<Digits[n + 1]>>
    ELSE NatToText(n \div 10) \o <<Digits[(n % 10) + 1]>>

\* Number.prototype.toString and JSON's number syntax, on integers.
NumberToString(n) == IF n < 0 THEN <<"-">> \o NatToText(-n) ELSE NatToText(n)

RECURSIVE DigitsValue(_, _)
DigitsValue(s, acc) ==
    IF s = <<>> \/ Head(s) \notin DigitSet THEN acc
    ELSE DigitsValue(Tail(s), acc * 10 + DigitValue(Head(s)))

\* parseFloat: an optional sign and the longest run of digits that follows;
\* NaN when there is no digit.
parseFloat(s) ==
    LET neg  == s # <<>> /\ Head(s) = "-"
        body == IF neg THEN Tail(s) ELSE s
    IN  IF body = <<>> \/ Head(body) \notin DigitSet THEN NaN
        ELSE IF neg THEN 0 - DigitsValue(body, 0) ELSE DigitsValue(body, 0)

\* <input type="number">: the value the element reports is the typed text
\* when it is a valid number and the empty string otherwise.
IsValidNumberText(s) ==
    LET body == IF s # <<>> /\ Head(s) = "-" THEN Tail(s) ELSE s
    IN  body # <<>> /\ \A i \in DOMAIN body : body[i] \in DigitSet

NumberInputValue(typed) == IF IsValidNumberText(typed) THEN typed ELSE <<>>

\* What the user types into the amount field.
AmountTyped == {<<>>, <<"5">>, <<"-", "5">>, <<"-">>}

(***************************************************************************)
(* JSON.stringify / JSON.parse of the transaction array                    *)
(***************************************************************************)
\* An object's text: each property it has, a number as its decimal text and
\* a string as a quoted string.
StringifyObject(t) ==
    [k \in DOMAIN t |->
        IF k = "amount" THEN [num |-> NumberToString(t[k])] ELSE [str |-> t[k]]]

JSONstringify(txs) == [i \in DOMAIN txs |-> StringifyObject(txs[i])]

ParseObject(o) ==
    [k \in DOMAIN o |->
        IF "num" \in DOMAIN o[k] THEN parseFloat(o[k].num) ELSE o[k].str]

JSONparse(text) == [i \in DOMAIN text |-> ParseObject(text[i])]

(***************************************************************************)
(* localStorage: a key holds <<>> (absent) or <<value>>                    *)
(***************************************************************************)
getItem(store, key) == store[key]

setItem(store, key, value) == [store EXCEPT ![key] = <<value>>]

(***************************************************************************)
(* Records                                                                 *)
(***************************************************************************)
TRANSACTIONS_KEY == "budgetTracker_transactions"

CURRENCY_KEY == "budgetTracker_defaultCurrency"

\* The state AddTransactionForm is constructed with, and is reset to.
InitialFormData(now) ==
    [type |-> "expense", amount |-> <<>>, category |-> "",
     date |-> Today(now), description |-> "", currency |-> "USD"]

Descriptions == {""}

categories(type) == IF type = "income" THEN INCOME_CATEGORIES ELSE EXPENSE_CATEGORIES

\* Times at which the records found in storage at start-up were created.
StoredTimes == {0, 1}

SetMax(S) == CHOOSE x \in S : \A y \in S : y <= x

\* A record as the first version of the page and of the form wrote it: no
\* currency field.
LegacyRecord(time) ==
    [id |-> NumberToString(time), type |-> "expense", amount |-> 30,
     category |-> "Food & Dining", date |-> "2023-12-30", description |-> ""]

\* A record as the current version writes it.
StoredRecord(time) ==
    [id |-> NumberToString(time), type |-> "income", amount |-> 12,
     category |-> "Salary", date |-> "2024-01-02", description |-> "",
     currency |-> "EUR"]

StorageOf(doc, currency) ==
    [k \in {TRANSACTIONS_KEY, CURRENCY_KEY} |->
        IF k = TRANSACTIONS_KEY THEN doc ELSE currency]

\* What localStorage may hold when the page is opened: nothing (first
\* visit), what the first version of the page left, or what the two
\* versions left when both were used on the same storage.
InitialStorage ==
    { StorageOf(<<>>, <<>>),
      StorageOf(<<JSONstringify(<<LegacyRecord(0)>>)>>, <<>>),
      StorageOf(<<JSONstringify(<<LegacyRecord(1), StoredRecord(0)>>)>>, <<"EUR">>) }

NoUpdates == [transactions |-> <<>>, defaultCurrency |-> <<>>]

Init ==
    /\ pc = "loadEffect"
    /\ transactions = <<>>
    /\ showAddForm = FALSE
    /\ defaultCurrency = "USD"
    /\ clock = SetMax(StoredTimes) + 1
    /\ formData = InitialFormData(clock)
    /\ localStorage \in InitialStorage
    /\ queued = NoUpdates
    /\ ViewInit

(***************************************************************************)
(* Index: effects                                                          *)
(***************************************************************************)
\* t.currency, without the default.
CurrencyOfNoDefault(t) == IF "currency" \in DOMAIN t THEN t.currency ELSE "undefined"

\* t.currency || 'USD'
CurrencyOf(t) ==
    IF "currency" \in DOMAIN t /\ t.currency # "" THEN t.currency ELSE "USD"

\* parsedTransactions.map(t => ({...t, currency: 'USD'}))
MigrateOverwriting(parsed) ==
    [i \in DOMAIN parsed |->
        [k \in DOMAIN parsed[i] \cup {"currency"} |->
            IF k = "currency" THEN "USD" ELSE parsed[i][k]]]

\* parsedTransactions.map(t => ({...t, currency: t.currency || 'USD'}))
Migrate(parsed) ==
    [i \in DOMAIN parsed |->
        [k \in DOMAIN parsed[i] \cup {"currency"} |->
            IF k = "currency" THEN CurrencyOf(parsed[i]) ELSE parsed[i][k]]]

\* The load effect: reads both keys and queues the state updates.
LoadEffect ==
    /\ pc = "loadEffect"
    /\ LET savedTransactions == getItem(localStorage, TRANSACTIONS_KEY)
           savedCurrency     == getItem(localStorage, CURRENCY_KEY)
       IN  queued' =
             [transactions |->
                 IF savedTransactions # <<>>
                 THEN <<Migrate(JSONparse(savedTransactions[1]))>> ELSE <<>>,
              defaultCurrency |->
                 IF savedCurrency # <<>> /\ savedCurrency[1] # ""
                 THEN savedCurrency ELSE <<>>]
    /\ pc' = "saveEffect"
    /\ UNCHANGED <<viewVars, transactions, showAddForm, defaultCurrency, formData,
                   localStorage, clock>>

\* A save that writes only the newest record.
SaveNewestOnly(store, txs) ==
    setItem(store, TRANSACTIONS_KEY,
            JSONstringify(IF txs = <<>> THEN <<>> ELSE <<txs[1]>>))

\* localStorage.setItem('budgetTracker_transactions', JSON.stringify(transactions))
SaveTransactions(store, txs) == setItem(store, TRANSACTIONS_KEY, JSONstringify(txs))

\* localStorage.setItem('budgetTracker_defaultCurrency', defaultCurrency)
SaveCurrency(store, currency) == setItem(store, CURRENCY_KEY, currency)

\* The save effect of the first render: it sees that render's transactions.
SaveEffect ==
    /\ pc = "saveEffect"
    /\ localStorage' = SaveTransactions(localStorage, transactions)
    /\ pc' = "saveCurrencyEffect"
    /\ UNCHANGED <<viewVars, transactions, showAddForm, defaultCurrency, formData,
                   queued, clock>>

\* The currency effect of the first render.
SaveCurrencyEffect ==
    /\ pc = "saveCurrencyEffect"
    /\ localStorage' = SaveCurrency(localStorage, defaultCurrency)
    /\ pc' = "rerender"
    /\ UNCHANGED <<viewVars, transactions, showAddForm, defaultCurrency, formData,
                   queued, clock>>

\* The render that applies the queued updates, with no save effect after it.
RerenderWithoutSave ==
    /\ pc = "rerender"
    /\ transactions' =
          IF queued.transactions # <<>> THEN queued.transactions[1] ELSE transactions
    /\ defaultCurrency' =
          IF queued.defaultCurrency # <<>> THEN queued.defaultCurrency[1]
          ELSE defaultCurrency
    /\ queued' = [transactions |-> <<>>, defaultCurrency |-> <<>>]
    /\ pc' = "idle"
    /\ UNCHANGED <<viewVars, showAddForm, formData, localStorage, clock>>

\* The render that applies the queued updates, and the effects whose
\* dependency changed in it.
Rerender ==
    /\ pc = "rerender"
    /\ transactions' =
          IF queued.transactions # <<>> THEN queued.transactions[1] ELSE transactions
    /\ defaultCurrency' =
          IF queued.defaultCurrency # <<>> THEN queued.defaultCurrency[1]
          ELSE defaultCurrency
    /\ localStorage' =
          LET afterTx == IF queued.transactions # <<>>
                         THEN SaveTransactions(localStorage, transactions')
                         ELSE localStorage
          IN  IF defaultCurrency' # defaultCurrency
              THEN SaveCurrency(afterTx, defaultCurrency') ELSE afterTx
    /\ queued' = NoUpdates
    /\ pc' = "idle"
    /\ UNCHANGED <<viewVars, showAddForm, formData, clock>>

(***************************************************************************)
(* Index: store operations                                                 *)
(***************************************************************************)
\* { ...transaction, id: Date.now().toString() }
WithId(transaction, now) ==
    [k \in DOMAIN transaction \cup {"id"} |->
        IF k = "id" THEN NumberToString(now) ELSE transaction[k]]

\* prev => [...prev, newTransaction]
AppendLast(newTransaction, prev) == prev \o <<newTransaction>>

\* prev => [newTransaction, ...prev]
Prepend(newTransaction, prev) == <<newTransaction>> \o prev

\* prev => prev.filter(t => t.id !== id)
FilterOut(prev, id) == SelectSeq(prev, LAMBDA t : t.id # id)

\* addTransaction, the render it causes and that render's save effect.
addTransaction(transaction) ==
    \E now \in clock..MaxClock :
        /\ pc = "idle"
        /\ Len(transactions) < MaxLen
        /\ clock' = now
        /\ transactions' = Prepend(WithId(transaction, now), transactions)
        /\ showAddForm' = FALSE
        /\ localStorage' = SaveTransactions(localStorage, transactions')
        /\ UNCHANGED <<viewVars, pc, defaultCurrency, queued>>

\* The ids deleteTransaction may be called with.
Ids == {NumberToString(n) : n \in 0..MaxClock}

\* deleteTransaction, the render it causes and that render's save effect.
deleteTransaction(id) ==
    /\ pc = "idle"
    /\ transactions' = FilterOut(transactions, id)
    /\ localStorage' = SaveTransactions(localStorage, transactions')
    /\ UNCHANGED <<viewVars, pc, showAddForm, defaultCurrency, formData, queued, clock>>

\* The header's currency selector, and the currency effect of the render.
setDefaultCurrency(c) ==
    /\ pc = "idle"
    /\ defaultCurrency' = c
    /\ localStorage' =
          IF c # defaultCurrency THEN SaveCurrency(localStorage, c) ELSE localStorage
    /\ UNCHANGED <<viewVars, pc, transactions, showAddForm, formData, queued, clock>>

\* The "Add Transaction" button: mounts the form.
openAddForm ==
    /\ pc = "idle"
    /\ ~showAddForm
    /\ showAddForm' = TRUE
    /\ formData' = InitialFormData(clock)
    /\ UNCHANGED <<viewVars, pc, transactions, defaultCurrency, localStorage, queued, clock>>

\* onClose: unmounts the form, whose state is discarded.
onClose ==
    /\ pc = "idle"
    /\ showAddForm
    /\ showAddForm' = FALSE
    /\ formData' = InitialFormData(clock)
    /\ UNCHANGED <<viewVars, pc, transactions, defaultCurrency, localStorage, queued, clock>>

(***************************************************************************)
(* AddTransactionForm                                                      *)
(***************************************************************************)
FormFrame ==
    UNCHANGED <<viewVars, pc, transactions, showAddForm, defaultCurrency, localStorage,
                queued, clock>>

\* The type changes and the selected category stays.
setTypeKeepingCategory(value) ==
    /\ pc = "idle" /\ showAddForm
    /\ formData' = [formData EXCEPT !.type = value]
    /\ FormFrame

\* onValueChange of the type select: { ...prev, type: value, category: '' }
setType(value) ==
    /\ pc = "idle" /\ showAddForm
    /\ formData' = [formData EXCEPT !.type = value, !.category = ""]
    /\ FormFrame

setAmount(typed) ==
    /\ pc = "idle" /\ showAddForm
    /\ formData' = [formData EXCEPT !.amount = NumberInputValue(typed)]
    /\ FormFrame

setCurrency(value) ==
    /\ pc = "idle" /\ showAddForm
    /\ formData' = [formData EXCEPT !.currency = value]
    /\ FormFrame

setCategory(value) ==
    /\ pc = "idle" /\ showAddForm
    /\ value \in Range(categories(formData.type))
    /\ formData' = [formData EXCEPT !.category = value]
    /\ FormFrame

setDescription(value) ==
    /\ pc = "idle" /\ showAddForm
    /\ formData' = [formData EXCEPT !.description = value]
    /\ FormFrame

\* The date input; the dates of the model are the day the form opens on.
Dates == {"2024-01-05"}

setDate(value) ==
    /\ pc = "idle" /\ showAddForm
    /\ formData' = [formData EXCEPT !.date = value]
    /\ FormFrame

\* !formData.amount
SubmitBlockedOnAmountOnly(data) == data.amount = <<>>

\* !formData.amount || !formData.category
SubmitBlocked(data) == data.amount = <<>> \/ data.category = ""

\* What handleSubmit hands to onAddTransaction.
SubmittedTransaction(data) ==
    [type |-> data.type, amount |-> parseFloat(data.amount),
     category |-> data.category, date |-> data.date,
     description |-> data.description, currency |-> data.currency]

handleSubmit ==
    /\ pc = "idle" /\ showAddForm
    /\ IF SubmitBlocked(formData)
       THEN UNCHANGED vars
       ELSE /\ addTransaction(SubmittedTransaction(formData))
            /\ formData' = InitialFormData(clock')

Next ==
    \/ LoadEffect
    \/ SaveEffect
    \/ SaveCurrencyEffect
    \/ Rerender
    \/ handleSubmit
    \/ \E id \in Ids : deleteTransaction(id)
    \/ \E c \in Range(CURRENCIES) : setDefaultCurrency(c)
    \/ openAddForm
    \/ onClose
    \/ \E v \in {"income", "expense"} : setType(v)
    \/ \E typed \in AmountTyped : setAmount(typed)
    \/ \E c \in Range(CURRENCIES) : setCurrency(c)
    \/ \E c \in Range(INCOME_CATEGORIES) \cup Range(EXPENSE_CATEGORIES) : setCategory(c)
    \/ \E d \in Descriptions : setDescription(d)
    \/ \E d \in Dates : setDate(d)

Spec == Init /\ [][Next]_vars

(***************************************************************************)
(* Index: per-currency totals, computed on every render                    *)
(***************************************************************************)
\* reduce((sum, t) => sum + t.amount, 0)
RECURSIVE SumAmounts(_)
SumAmounts(txs) ==
    IF txs = <<>> THEN 0 ELSE txs[1].amount + SumAmounts(Tail(txs))

\* The keys of the grouping object, in the order reduce creates them.
RECURSIVE KeyOrder(_, _)
KeyOrder(txs, keys) ==
    IF txs = <<>> THEN keys
    ELSE KeyOrder(Tail(txs),
                  IF CurrencyOf(txs[1]) \in Range(keys) THEN keys
                  ELSE Append(keys, CurrencyOf(txs[1])))

\* A grouping that pushes every transaction under every key.
transactionsUnderEveryKey(txs) == [c \in Range(KeyOrder(txs, <<>>)) |-> txs]

\* transactions.reduce(... acc[currency].push(transaction) ...)
transactionsByCurrency(txs) ==
    [c \in Range(KeyOrder(txs, <<>>)) |->
        SelectSeq(txs, LAMBDA t : CurrencyOf(t) = c)]

\* Object.entries(transactionsByCurrency).map(...)
totals(txs) ==
    LET keys    == KeyOrder(txs, <<>>)
        grouped == transactionsByCurrency(txs)
    IN  [i \in DOMAIN keys |->
            LET income   == SumAmounts(SelectSeq(grouped[keys[i]],
                                                 LAMBDA t : t.type = "income"))
                expenses == SumAmounts(SelectSeq(grouped[keys[i]],
                                                 LAMBDA t : t.type = "expense"))
            IN  [currency |-> keys[i], income |-> income, expenses |-> expenses,
                 savings |-> income - expenses]]

\* totals.find(t => t.currency === defaultCurrency) || { ..., 0, 0, 0 }
defaultTotals(txs, currency) ==
    LET all == totals(txs)
    IN  IF \E i \in DOMAIN all : all[i].currency = currency
        THEN all[CHOOSE i \in DOMAIN all :
                    /\ all[i].currency = currency
                    /\ \A j \in DOMAIN all : all[j].currency = currency => i <= j]
        ELSE [currency |-> currency, income |-> 0, expenses |-> 0, savings |-> 0]

(***************************************************************************)
(* TransactionChart: expense breakdown of the selected currency            *)
(***************************************************************************)
\* transactions.filter(t => (t.currency || 'USD') === selectedCurrency)
filteredTransactions(txs, selected) ==
    SelectSeq(txs, LAMBDA t : CurrencyOf(t) = selected)

\* The categories of the breakdown, in the order reduce creates them.
RECURSIVE CategoryOrder(_, _)
CategoryOrder(txs, keys) ==
    IF txs = <<>> THEN keys
    ELSE CategoryOrder(Tail(txs),
                       IF txs[1].category \in Range(keys) THEN keys
                       ELSE Append(keys, txs[1].category))

\* reduce(... acc[category] = amount ...): the last amount replaces the sum.
RECURSIVE SetByCategory(_, _)
SetByCategory(txs, acc) ==
    IF txs = <<>> THEN acc
    ELSE SetByCategory(Tail(txs),
             [k \in DOMAIN acc \cup {txs[1].category} |->
                 IF k = txs[1].category THEN txs[1].amount ELSE acc[k]])

\* filteredTransactions.filter(expense).reduce(... acc[category] += amount ...)
RECURSIVE AddByCategory(_, _)
AddByCategory(txs, acc) ==
    IF txs = <<>> THEN acc
    ELSE LET category == txs[1].category
         IN  AddByCategory(Tail(txs),
                 IF category \in DOMAIN acc /\ acc[category] # 0
                 THEN [acc EXCEPT ![category] = @ + txs[1].amount]
                 ELSE [k \in DOMAIN acc \cup {category} |->
                          IF k = category THEN txs[1].amount ELSE acc[k]])

expenseData(txs, selected) ==
    AddByCategory(SelectSeq(filteredTransactions(txs, selected),
                            LAMBDA t : t.type = "expense"),
                  <<>>)

\* Object.entries(expenseData).map(([category, amount]) => ({name, value}))
pieData(txs, selected) ==
    LET expenses == SelectSeq(filteredTransactions(txs, selected),
                              LAMBDA t : t.type = "expense")
        keys     == CategoryOrder(expenses, <<>>)
        data     == expenseData(txs, selected)
    IN  [i \in DOMAIN keys |-> [name |-> keys[i], value |-> data[keys[i]]]]

(***************************************************************************)
(* Aggregation over any transaction sequence                               *)
(*                                                                         *)
(* The aggregation code accepts records without a currency (it reads       *)
(* t.currency || 'USD'), so its inputs are drawn here from sequences that  *)
(* mix records with and without the field.                                 *)
(***************************************************************************)
\* Largest length of an aggregated sequence.
MaxTx == 3

AggShapes ==
    {<<"income", "Salary">>, <<"expense", "Food & Dining">>, <<"expense", "Shopping">>}

AggAmounts == {5, 12}

AggCurrencies == {<<>>, <<"USD">>, <<"EUR">>}

AggRecord(shape, amount, currency) ==
    LET base == [type |-> shape[1], amount |-> amount, category |-> shape[2],
                 date |-> "2024-01-05", description |-> ""]
    IN  IF currency = <<>> THEN base
        ELSE [k \in DOMAIN base \cup {"currency"} |->
                 IF k = "currency" THEN currency[1] ELSE base[k]]

AggRecords ==
    {AggRecord(shape, amount, currency) :
        shape \in AggShapes, amount \in AggAmounts, currency \in AggCurrencies}

\* Ids as successive additions give them: the newest record is first.
AssignIds(txs) == [i \in DOMAIN txs |-> WithId(txs[i], Len(txs) - i)]

AggInputs == UNION {[1..n -> AggRecords] : n \in 0..MaxTx}

InitAgg ==
    /\ pc = "idle"
    /\ transactions \in {AssignIds(txs) : txs \in AggInputs}
    /\ showAddForm = FALSE
    /\ defaultCurrency = "USD"
    /\ clock = MaxTx
    /\ formData = InitialFormData(clock)
    /\ localStorage =
          SaveCurrency(SaveTransactions(StorageOf(<<>>, <<>>), transactions),
                       defaultCurrency)
    /\ queued = NoUpdates
    /\ ViewInit

AggIds == {NumberToString(n) : n \in 0..MaxTx}

NextAgg ==
    \/ \E id \in AggIds : deleteTransaction(id)
    \/ \E c \in Range(CURRENCIES) : setDefaultCurrency(c)

SpecAgg == InitAgg /\ [][NextAgg]_vars

(***************************************************************************)
(* Properties                                                              *)
(***************************************************************************)
RemoveAt(s, i) == SubSeq(s, 1, i - 1) \o SubSeq(s, i + 1, Len(s))

\* A record belongs to currency c: its own code, or USD when it has none.
CountsAs(t, c) == IF "currency" \in DOMAIN t THEN t.currency = c ELSE c = "USD"

CodesIn(txs) == {c \in {"USD", "EUR"} : \E i \in DOMAIN txs : CountsAs(txs[i], c)}

RECURSIVE SumOver(_, _)
SumOver(txs, I) ==
    IF I = {} THEN 0
    ELSE LET i == CHOOSE j \in I : TRUE
         IN  txs[i].amount + SumOver(txs, I \ {i})

TypeSum(txs, c, type) ==
    SumOver(txs, {i \in DOMAIN txs : CountsAs(txs[i], c) /\ txs[i].type = type})

\* The entries the totals report for currency c.
Reported(txs, c) ==
    LET all == totals(txs)
    IN  {all[i] : i \in {j \in DOMAIN all : all[j].currency = c}}

CreatedInSession(t) == parseFloat(t.id) > SetMax(StoredTimes)

\* The submit handler runs with a complete form.
Submits == handleSubmit /\ formData.amount # <<>> /\ formData.category # ""

\* C1: deleteTransaction(id) removes exactly one record, the one whose id is
\* the argument, and keeps the others in order; it changes nothing when no
\* record has that id.
C1_DeleteRemovesExactlyOne ==
    [][\A id \in Ids :
          deleteTransaction(id) =>
              IF \E i \in DOMAIN transactions : transactions[i].id = id
              THEN \E i \in DOMAIN transactions :
                      /\ transactions[i].id = id
                      /\ transactions' = RemoveAt(transactions, i)
              ELSE transactions' = transactions]_vars

\* C2: no two records of the store have the same id.
C2_IdsUnique ==
    \A i, j \in DOMAIN transactions :
        i # j => transactions[i].id # transactions[j].id

\* C3: addTransaction puts the new record (the submitted fields plus an id)
\* first, keeps the previous sequence unchanged after it, and grows the
\* length by exactly one.
C3_AddPrepends ==
    [][Submits =>
          /\ Len(transactions') = Len(transactions) + 1
          /\ Tail(transactions') = transactions
          /\ DOMAIN Head(transactions') =
                {"id", "type", "amount", "category", "date", "description", "currency"}
          /\ Head(transactions').id = NumberToString(clock')
          /\ Head(transactions').type = formData.type
          /\ Head(transactions').amount = parseFloat(formData.amount)
          /\ Head(transactions').category = formData.category
          /\ Head(transactions').date = formData.date
          /\ Head(transactions').description = formData.description
          /\ Head(transactions').currency = formData.currency]_vars

C3_Witness ==
    /\ pc = "idle"
    /\ Len(transactions) = 2
    /\ CreatedInSession(transactions[1])
    /\ ~CreatedInSession(transactions[2])

\* C4: once a mutation has been processed, the value stored under the
\* transactions key reads back as the whole in-memory sequence, record by
\* record and in the same order.
C4_StorageMirrorsStore ==
    pc = "idle" =>
        /\ localStorage[TRANSACTIONS_KEY] # <<>>
        /\ LET doc == localStorage[TRANSACTIONS_KEY][1]
           IN  /\ Len(doc) = Len(transactions)
               /\ \A i \in DOMAIN doc : ParseObject(doc[i]) = transactions[i]

C4_Witness ==
    /\ pc = "idle"
    /\ Len(transactions) = 2
    /\ CreatedInSession(transactions[1])
    /\ CreatedInSession(transactions[2])
    /\ transactions[1] # transactions[2]

\* C5: loading yields a sequence of the same length and order in which a
\* record that lacked a currency has "USD" and every field a record had is
\* kept.
C5_LoadDefaultsCurrency ==
    (pc = "saveEffect" /\ localStorage[TRANSACTIONS_KEY] # <<>>) =>
        /\ queued.transactions # <<>>
        /\ LET raw    == localStorage[TRANSACTIONS_KEY][1]
               loaded == queued.transactions[1]
           IN  /\ Len(loaded) = Len(raw)
               /\ \A i \in DOMAIN raw :
                     /\ DOMAIN loaded[i] = DOMAIN raw[i] \cup {"currency"}
                     /\ "currency" \notin DOMAIN raw[i] => loaded[i].currency = "USD"
                     /\ \A k \in DOMAIN raw[i] :
                           IF k = "amount"
                           THEN NumberToString(loaded[i][k]) = raw[i][k].num
                           ELSE loaded[i][k] = raw[i][k].str

C5_Witness ==
    /\ pc = "saveEffect"
    /\ queued.transactions # <<>>
    /\ Len(queued.transactions[1]) = 2
    /\ "currency" \notin DOMAIN localStorage[TRANSACTIONS_KEY][1][1]
    /\ "currency" \in DOMAIN localStorage[TRANSACTIONS_KEY][1][2]

\* C6: for every currency present, exactly one entry is reported and its
\* balance is the sum of its income amounts minus the sum of its expense
\* amounts, a record without currency counting as USD.
C6_BalancePerCurrency ==
    \A c \in CodesIn(transactions) :
        /\ Cardinality(Reported(transactions, c)) = 1
        /\ \A r \in Reported(transactions, c) :
              r.savings = TypeSum(transactions, c, "income")
                          - TypeSum(transactions, c, "expense")

C6_Witness ==
    /\ Len(transactions) = 3
    /\ "currency" \notin DOMAIN transactions[1]
    /\ transactions[1].type = "expense"
    /\ "currency" \in DOMAIN transactions[2]
    /\ transactions[2].currency = "USD"
    /\ transactions[2].type = "income"
    /\ "currency" \in DOMAIN transactions[3]
    /\ transactions[3].currency = "EUR"

RECURSIVE SumValues(_)
SumValues(data) == IF data = <<>> THEN 0 ELSE data[1].value + SumValues(Tail(data))

C8_OtherCurrenciesUntouched ==
    [][transactions' # transactions =>
          /\ Submits =>
                \A c \in Range(CURRENCIES) \ {formData.currency} :
                    Reported(transactions', c) = Reported(transactions, c)
          /\ \A id \in Ids :
                deleteTransaction(id) =>
                    \A c \in Range(CURRENCIES) :
                        (\A i \in DOMAIN transactions :
                            transactions[i].id = id => ~CountsAs(transactions[i], c))
                        => Reported(transactions', c) = Reported(transactions, c)]_vars

C8_Witness ==
    /\ pc = "idle"
    /\ Len(transactions) = 2
    /\ CreatedInSession(transactions[1])
    /\ transactions[1].currency # transactions[2].currency

\* C9: every record of the store has amount >= 0.
C9_AmountsNonNegative ==
    \A i \in DOMAIN transactions : transactions[i].amount >= 0

\* C10: submitting while the amount is empty or no category is selected
\* changes neither the store nor the persisted value, and neither resets
\* nor closes the form.
C10_BlockedSubmitChangesNothing ==
    [][(handleSubmit /\ (formData.amount = <<>> \/ formData.category = ""))
          => UNCHANGED <<transactions, localStorage, formData, showAddForm>>]_vars

C10_Witness ==
    /\ pc = "idle"
    /\ showAddForm
    /\ formData.amount # <<>>
    /\ formData.category = ""
    /\ transactions # <<>>

\* A step of the mounted page that adds or deletes a record: no other
\* handler sets the store.
Mutates == pc = "idle" /\ transactions' # transactions

\* C16 (as stated): from the load on, the value stored under the
\* transactions key stays what it was before the load until the first
\* addTransaction or deleteTransaction.
C16_StorageUntouchedByLoad ==
    [][(localStorage[TRANSACTIONS_KEY] # <<>> /\ ~Mutates)
          => localStorage'[TRANSACTIONS_KEY] = localStorage[TRANSACTIONS_KEY]]_vars

\* C16 (amended): the render that applies the loaded records stores them as
\* loaded, currency defaults included; after the mount sequence the stored
\* value changes only with an addTransaction or a deleteTransaction.
C16_LoadedRecordsAreSaved ==
    [][/\ (pc = "rerender" /\ queued.transactions # <<>>) =>
             /\ localStorage'[TRANSACTIONS_KEY] # <<>>
             /\ LET doc == localStorage'[TRANSACTIONS_KEY][1]
                IN  /\ Len(doc) = Len(queued.transactions[1])
                    /\ \A i \in DOMAIN doc :
                          /\ "currency" \in DOMAIN doc[i]
                          /\ ParseObject(doc[i]) = queued.transactions[1][i]
       /\ (pc = "idle" /\ ~Mutates) =>
             localStorage'[TRANSACTIONS_KEY] = localStorage[TRANSACTIONS_KEY]]_vars

C16_Witness ==
    /\ pc = "idle"
    /\ Len(transactions) = 1
    /\ ~CreatedInSession(transactions[1])
    /\ localStorage[TRANSACTIONS_KEY] # <<>>
    /\ Len(localStorage[TRANSACTIONS_KEY][1]) = 1
    /\ localStorage[TRANSACTIONS_KEY][1][1].currency = [str |-> "USD"]

(***************************************************************************)
(* Text: a string as the sequence of its characters                        *)
(***************************************************************************)
\* The characters of the strings that the list view and the trend chart
\* search, compare and parse.
Chars(s) ==
    CASE s = "" -> <<>>
      [] s = "Salary" -> <<"S", "a", "l", "a", "r", "y">>
      [] s = "Shopping" -> <<"S", "h", "o", "p", "p", "i", "n", "g">>
      [] s = "Food & Dining" ->
            <<"F", "o", "o", "d", " ", "&", " ", "D", "i", "n", "i", "n", "g">>
      [] s = "Freelance" -> <<"F", "r", "e", "e", "l", "a", "n", "c", "e">>
      [] s = "Lunch" -> <<"L", "u", "n", "c", "h">>
      [] s = "shop" -> <<"s", "h", "o", "p">>
      [] s = "SHOP" -> <<"S", "H", "O", "P">>
      [] s = "din" -> <<"d", "i", "n">>
      [] s = "0999-12-31" -> <<"0", "9", "9", "9", "-", "1", "2", "-", "3", "1">>
      [] s = "2023-12-31" -> <<"2", "0", "2", "3", "-", "1", "2", "-", "3", "1">>
      [] s = "2024-01-01" -> <<"2", "0", "2", "4", "-", "0", "1", "-", "0", "1">>
      [] s = "2024-01-05" -> <<"2", "0", "2", "4", "-", "0", "1", "-", "0", "5">>
      [] s = "2024-01-07" -> <<"2", "0", "2", "4", "-", "0", "1", "-", "0", "7">>
      [] s = "2024-02-01" -> <<"2", "0", "2", "4", "-", "0", "2", "-", "0", "1">>

UpperCase ==
    <<"A", "B", "C", "D", "E", "F", "G", "H", "I", "J", "K", "L", "M",
      "N", "O", "P", "Q", "R", "S", "T", "U", "V", "W", "X", "Y", "Z">>

LowerCase ==
    <<"a", "b", "c", "d", "e", "f", "g", "h", "i", "j", "k", "l", "m",
      "n", "o", "p", "q", "r", "s", "t", "u", "v", "w", "x", "y", "z">>

IndexIn(seq, c) == CHOOSE k \in DOMAIN seq : seq[k] = c

\* String.prototype.toLowerCase
toLowerCase(cs) ==
    [i \in DOMAIN cs |->
        IF cs[i] \in Range(UpperCase) THEN LowerCase[IndexIn(UpperCase, cs[i])]
        ELSE cs[i]]

\* String.prototype.includes: the needle occurs at some offset.
includes(hay, needle) ==
    \E i \in 0..(Len(hay) - Len(needle)) :
        SubSeq(hay, i + 1, i + Len(needle)) = needle

\* Characters in the order of their UTF-16 code units.
CodeUnits ==
    <<" ", "&", "-", "0", "1", "2", "3", "4", "5", "6", "7", "8", "9">>
        \o UpperCase \o LowerCase

\* Characters in the order of the collation's primary weights, letters
\* taken without their case.
CollationOrder ==
    <<" ", "-", "&", "0", "1", "2", "3", "4", "5", "6", "7", "8", "9">>
        \o LowerCase

\* -1, 0 or 1: the first position where the two sequences of ranks differ,
\* a proper prefix being smaller.
RECURSIVE CompareRanks(_, _)
CompareRanks(a, b) ==
    IF a = <<>> /\ b = <<>> THEN 0
    ELSE IF a = <<>> THEN -1
    ELSE IF b = <<>> THEN 1
    ELSE IF Head(a) < Head(b) THEN -1
    ELSE IF Head(a) > Head(b) THEN 1
    ELSE CompareRanks(Tail(a), Tail(b))

\* String.prototype.localeCompare: by primary weight first; strings equal
\* there are ordered by case, lower case first.
localeCompare(a, b) ==
    LET primary(cs) ==
            [i \in DOMAIN cs |-> IndexIn(CollationOrder, toLowerCase(cs)[i])]
        case(cs) ==
            [i \in DOMAIN cs |-> IF cs[i] \in Range(UpperCase) THEN 1 ELSE 0]
        first == CompareRanks(primary(a), primary(b))
    IN  IF first # 0 THEN first ELSE CompareRanks(case(a), case(b))

(***************************************************************************)
(* Date: time values in minutes since 1970-01-01T00:00Z                    *)
(***************************************************************************)
MinutesPerDay == 1440

\* Days from 1970-01-01 to the civil date y-m-d (proleptic Gregorian).
DaysFromCivil(y, m, d) ==
    LET yy  == IF m <= 2 THEN y - 1 ELSE y
        era == yy \div 400
        yoe == yy - era * 400
        mp  == IF m > 2 THEN m - 3 ELSE m + 9
        doy == (153 * mp + 2) \div 5 + d - 1
        doe == yoe * 365 + yoe \div 4 - yoe \div 100 + doy
    IN  era * 146097 + doe - 719468

\* The date-only form YYYY-MM-DD.
IsDateText(cs) ==
    /\ Len(cs) = 10
    /\ cs[5] = "-" /\ cs[8] = "-"
    /\ \A i \in {1, 2, 3, 4, 6, 7, 9, 10} : cs[i] \in DigitSet
    /\ DigitsValue(SubSeq(cs, 6, 7), 0) \in 1..12
    /\ DigitsValue(SubSeq(cs, 9, 10), 0) \in 1..31

\* new Date(text) is an Invalid Date.
IsInvalidDate(text) == ~IsDateText(Chars(text))

\* new Date(text).getTime(): a date-only text is midnight UTC of that day;
\* any other text of the model is an invalid date, whose time value is NaN.
DateGetTime(text) ==
    LET cs == Chars(text)
    IN  IF ~IsDateText(cs) THEN NaN
        ELSE MinutesPerDay *
                DaysFromCivil(DigitsValue(SubSeq(cs, 1, 4), 0),
                              DigitsValue(SubSeq(cs, 6, 7), 0),
                              DigitsValue(SubSeq(cs, 9, 10), 0))

(***************************************************************************)
(* TransactionList: search, filters and sort                               *)
(***************************************************************************)
matchesSearchInDescription(t, term) ==
    includes(toLowerCase(Chars(t.description)), toLowerCase(Chars(term)))

matchesSearch(t, term) ==
    \/ includes(toLowerCase(Chars(t.description)), toLowerCase(Chars(term)))
    \/ includes(toLowerCase(Chars(t.category)), toLowerCase(Chars(term)))

matchesType(t, type) == type = "all" \/ t.type = type

matchesCategory(t, category) == category = "all" \/ t.category = category

matchesCurrency(t, code) == code = "all" \/ CurrencyOf(t) = code

\* The sort callback; a NaN difference counts as 0.
compare(a, b, key) ==
    CASE key = "date" ->
            IF IsInvalidDate(a.date) \/ IsInvalidDate(b.date) THEN 0
            ELSE DateGetTime(b.date) - DateGetTime(a.date)
      [] key = "amount" -> b.amount - a.amount
      [] key = "category" -> localeCompare(Chars(a.category), Chars(b.category))
      [] OTHER -> 0

\* Inserting x before the first element that is not ordered before it.
InsertBeforeEqual(sorted, x, key) ==
    LET after == {i \in DOMAIN sorted : compare(sorted[i], x, key) >= 0}
        at    == IF after = {} THEN Len(sorted) + 1
                 ELSE CHOOSE i \in after : \A j \in after : i <= j
    IN  SubSeq(sorted, 1, at - 1) \o <<x>> \o SubSeq(sorted, at, Len(sorted))

\* Inserting x before the first element ordered after it: behind its equals.
Insert(sorted, x, key) ==
    LET after == {i \in DOMAIN sorted : compare(sorted[i], x, key) > 0}
        at    == IF after = {} THEN Len(sorted) + 1
                 ELSE CHOOSE i \in after : \A j \in after : i <= j
    IN  SubSeq(sorted, 1, at - 1) \o <<x>> \o SubSeq(sorted, at, Len(sorted))

\* Array.prototype.sort, which is stable.
RECURSIVE Sort(_, _)
Sort(txs, key) ==
    IF txs = <<>> THEN <<>>
    ELSE Insert(Sort(SubSeq(txs, 1, Len(txs) - 1), key), txs[Len(txs)], key)

\* TransactionList's filteredTransactions: what the list shows.
shownTransactions(txs, term, type, category, code, key) ==
    LET keep(t) == /\ matchesSearch(t, term)
                   /\ matchesType(t, type)
                   /\ matchesCategory(t, category)
                   /\ matchesCurrency(t, code)
    IN  Sort(SelectSeq(txs, keep), key)

shown ==
    shownTransactions(transactions, searchTerm, filterType, filterCategory,
                      filterCurrency, sortBy)

\* [...new Set(transactions.map(t => t.category))], as a set
uniqueCategories == {transactions[i].category : i \in DOMAIN transactions}

\* [...new Set(transactions.map(t => t.currency || 'USD'))], as a set
uniqueCurrencies == {CurrencyOf(transactions[i]) : i \in DOMAIN transactions}

\* What the user types into the search box.
SearchTerms == {"", "SHOP", "din"}

setSearchTerm(v) ==
    /\ searchTerm' = v
    /\ UNCHANGED <<pc, transactions, showAddForm, defaultCurrency, formData,
                   localStorage, queued, clock, trendVars, chartVars, exportVars,
                   filterType, filterCategory, filterCurrency, sortBy>>

setFilterType(v) ==
    /\ filterType' = v
    /\ UNCHANGED <<pc, transactions, showAddForm, defaultCurrency, formData,
                   localStorage, queued, clock, trendVars, chartVars, exportVars,
                   searchTerm, filterCategory, filterCurrency, sortBy>>

setFilterCategory(v) ==
    /\ filterCategory' = v
    /\ UNCHANGED <<pc, transactions, showAddForm, defaultCurrency, formData,
                   localStorage, queued, clock, trendVars, chartVars, exportVars,
                   searchTerm, filterType, filterCurrency, sortBy>>

\* The currency select is rendered only when the records span more than one
\* currency.
setFilterCurrency(v) ==
    /\ Cardinality(uniqueCurrencies) > 1
    /\ filterCurrency' = v
    /\ UNCHANGED <<pc, transactions, showAddForm, defaultCurrency, formData,
                   localStorage, queued, clock, trendVars, chartVars, exportVars,
                   searchTerm, filterType, filterCategory, sortBy>>

\* The sort of the next render works on the store's own array.
setSortBySortingStore(v) ==
    /\ sortBy' = v
    /\ transactions' = Sort(transactions, v)
    /\ UNCHANGED <<pc, showAddForm, defaultCurrency, formData,
                   localStorage, queued, clock, trendVars, chartVars, exportVars,
                   searchTerm, filterType, filterCategory, filterCurrency>>

\* The sort select; the next render sorts the copy that filter returned.
setSortBy(v) ==
    /\ sortBy' = v
    /\ UNCHANGED <<pc, transactions, showAddForm, defaultCurrency, formData,
                   localStorage, queued, clock, trendVars, chartVars, exportVars,
                   searchTerm, filterType, filterCategory, filterCurrency>>

\* The delete button of a shown row.
onDeleteTransaction(id) == deleteTransaction(id)

(***************************************************************************)
(* The list view over any transaction sequence                             *)
(***************************************************************************)
ListRecord(type, category, amount, date, description, currency) ==
    LET base == [type |-> type, amount |-> amount, category |-> category,
                 date |-> date, description |-> description]
    IN  IF currency = <<>> THEN base
        ELSE [k \in DOMAIN base \cup {"currency"} |->
                 IF k = "currency" THEN currency[1] ELSE base[k]]

ListRecords ==
    { ListRecord("income", "Freelance", 12, "2024-02-01", "shop", <<"EUR">>),
      ListRecord("expense", "Food & Dining", 5, "2023-12-31", "", <<"USD">>),
      ListRecord("expense", "Shopping", 30, "2024-01-05", "Lunch", <<>>) }

ListInputs == UNION {[1..n -> ListRecords] : n \in 0..MaxTx}

InitList ==
    /\ pc = "idle"
    /\ transactions \in {AssignIds(txs) : txs \in ListInputs}
    /\ showAddForm = FALSE
    /\ defaultCurrency = "USD"
    /\ clock = MaxTx
    /\ formData = InitialFormData(clock)
    /\ localStorage =
          SaveCurrency(SaveTransactions(StorageOf(<<>>, <<>>), transactions),
                       defaultCurrency)
    /\ queued = NoUpdates
    /\ ViewInit

NextList ==
    \/ \E v \in SearchTerms : setSearchTerm(v)
    \/ \E v \in {"all", "income", "expense"} : setFilterType(v)
    \/ \E v \in {"all"} \cup uniqueCategories : setFilterCategory(v)
    \/ \E v \in {"all"} \cup uniqueCurrencies : setFilterCurrency(v)
    \/ \E v \in {"date", "amount", "category"} : setSortBy(v)
    \/ \E i \in DOMAIN shown : onDeleteTransaction(shown[i].id)

SpecList == InitList /\ [][NextList]_vars

(***************************************************************************)
(* Properties of the list view                                             *)
(***************************************************************************)
\* The same character up to the case of a letter.
SameLetter(c, d) ==
    \/ c = d
    \/ \E k \in DOMAIN UpperCase :
          {c, d} = {UpperCase[k], LowerCase[k]}

\* needle occurs in hay at some offset, letters compared without case.
OccursIgnoringCase(hay, needle) ==
    \E off \in 0..(Len(hay) - Len(needle)) :
        \A k \in DOMAIN needle : SameLetter(hay[off + k], needle[k])

\* The record satisfies every active predicate of the list view.
Satisfies(t) ==
    /\ \/ OccursIgnoringCase(Chars(t.description), Chars(searchTerm))
       \/ OccursIgnoringCase(Chars(t.category), Chars(searchTerm))
    /\ filterType = "all" \/ t.type = filterType
    /\ filterCategory = "all" \/ t.category = filterCategory
    /\ filterCurrency = "all" \/ CountsAs(t, filterCurrency)

\* a is before b, or equal to it, in the order of the code units.
LexLeq(a, b) ==
    LET units(cs) == [i \in DOMAIN cs |-> IndexIn(CodeUnits, cs[i])]
    IN  CompareRanks(units(Chars(a)), units(Chars(b))) <= 0

\* Position in the store of the record with the given id.
StoreIndex(id) == CHOOSE i \in DOMAIN transactions : transactions[i].id = id

\* C17: the list shows exactly the records that satisfy all active
\* predicates (search term a case-insensitive substring of description or
\* category; type, category and currency filters 'all' or equal, a missing
\* currency counting as USD), each once; with no filter and no search term
\* it shows as many records as the store holds.
C17_ListShowsMatches ==
    LET list     == shown
        matching == {j \in DOMAIN transactions : Satisfies(transactions[j])}
    IN  /\ {list[i] : i \in DOMAIN list} = {transactions[i] : i \in matching}
        /\ Len(list) = Cardinality(matching)
        /\ (searchTerm = "" /\ filterType = "all" /\ filterCategory = "all"
               /\ filterCurrency = "all") => Len(list) = Len(transactions)

C17_Witness ==
    /\ searchTerm = "SHOP"
    /\ filterType = "expense"
    /\ filterCurrency = "USD"
    /\ Len(transactions) = 3
    /\ Len(shown) = 2
    /\ \E i \in DOMAIN shown : "currency" \notin DOMAIN shown[i]
    /\ \E i \in DOMAIN transactions : transactions[i].description = "shop"

\* C18: the shown records are the matching records reordered: by date
\* non-increasing, by amount non-increasing or by category
\* lexicographically non-decreasing, according to the sort key, and two
\* records with equal keys stay in their store order.
C18_SortStable ==
    LET list     == shown
        matching == {j \in DOMAIN transactions : Satisfies(transactions[j])}
    IN  /\ Len(list) = Cardinality(matching)
        /\ \A i \in DOMAIN list : \E j \in matching : list[i] = transactions[j]
        /\ \A i, j \in DOMAIN list :
              i < j =>
                LET a == list[i]
                    b == list[j]
                    inStoreOrder == StoreIndex(a.id) < StoreIndex(b.id)
                IN  CASE sortBy = "date" ->
                            /\ LexLeq(b.date, a.date)
                            /\ a.date = b.date => inStoreOrder
                      [] sortBy = "amount" ->
                            /\ b.amount <= a.amount
                            /\ a.amount = b.amount => inStoreOrder
                      [] sortBy = "category" ->
                            /\ LexLeq(a.category, b.category)
                            /\ a.category = b.category => inStoreOrder

C18_Witness ==
    /\ sortBy = "category"
    /\ Len(shown) = 3
    /\ shown[1].category = "Food & Dining"
    /\ shown[2].category = "Shopping"
    /\ shown[3].category = "Shopping"
    /\ transactions[3] = shown[1]
    /\ transactions[1] = shown[2]
    /\ transactions[2] = shown[3]

(***************************************************************************)
(* SpendingLineChart: expenses of one currency per week or month           *)
(***************************************************************************)
\* The civil date <<year, month, day>> of a day number.
CivilFromDays(days) ==
    LET z   == days + 719468
        era == z \div 146097
        doe == z - era * 146097
        yoe == (doe - doe \div 1460 + doe \div 36524 - doe \div 146096) \div 365
        doy == doe - (365 * yoe + yoe \div 4 - yoe \div 100)
        mp  == (5 * doy + 2) \div 153
        d   == doy - (153 * mp + 2) \div 5 + 1
        m   == IF mp < 10 THEN mp + 3 ELSE mp - 9
        y   == yoe + era * 400
    IN  <<IF m <= 2 THEN y + 1 ELSE y, m, d>>

\* The local calendar day of a time value in a zone tz minutes east of UTC.
LocalDays(time, tz) == (time + tz) \div MinutesPerDay

\* Date.prototype.getFullYear
getFullYear(time, tz) == CivilFromDays(LocalDays(time, tz))[1]

\* Date.prototype.getMonth, from 0
getMonth(time, tz) == CivilFromDays(LocalDays(time, tz))[2] - 1

\* Date.prototype.getDay, Sunday being 0; 1970-01-01 was a Thursday.
getDay(time, tz) == (LocalDays(time, tz) + 4) % 7

\* new Date(year, 0, 1).getTime(): local midnight of January 1st.
FirstDayOfYear(year, tz) == MinutesPerDay * DaysFromCivil(year, 1, 1) - tz

\* String.prototype.padStart(2, "0")
padStart2(cs) == IF Len(cs) < 2 THEN <<"0">> \o cs ELSE cs

\* The text of NaN in a template literal.
NaNText == <<"N", "a", "N">>

\* getWeekYear(new Date(text)); Math.ceil of a quotient of minutes.
getWeekYear(text, tz) ==
    IF IsInvalidDate(text)
    THEN NaNText \o <<"-", "W">> \o NaNText
    ELSE LET time  == DateGetTime(text)
             year  == getFullYear(time, tz)
             first == FirstDayOfYear(year, tz)
             num   == (time - first) + (getDay(first, tz) + 1) * MinutesPerDay
             week  == (num + 7 * MinutesPerDay - 1) \div (7 * MinutesPerDay)
         IN  NumberToString(year) \o <<"-", "W">> \o padStart2(NumberToString(week))

\* getMonthYear(new Date(text))
getMonthYear(text, tz) ==
    IF IsInvalidDate(text)
    THEN NaNText \o <<"-">> \o NaNText
    ELSE LET time == DateGetTime(text)
         IN  NumberToString(getFullYear(time, tz)) \o <<"-">>
                \o padStart2(NumberToString(getMonth(time, tz) + 1))

BucketKey(t, per, tz) ==
    IF per = "weekly" THEN getWeekYear(t.date, tz) ELSE getMonthYear(t.date, tz)

\* The records whose date cannot be parsed are left out as well.
filteredParsed(txs, code) ==
    LET keep(t) == t.type = "expense" /\ CurrencyOf(t) = code
                     /\ ~IsInvalidDate(t.date)
    IN  SelectSeq(txs, keep)

\* transactions.filter(t => t.type === "expense" && (t.currency || "USD") === currency)
filtered(txs, code) ==
    LET keep(t) == t.type = "expense" /\ CurrencyOf(t) = code
    IN  SelectSeq(txs, keep)

\* map.set(key, amount): the entry of the key is replaced.
SetBucket(map, key, amount) ==
    LET at == {i \in DOMAIN map : map[i][1] = key}
    IN  IF at = {} THEN Append(map, <<key, amount>>)
        ELSE [i \in DOMAIN map |-> IF i \in at THEN <<key, amount>> ELSE map[i]]

\* map.set(key, (map.get(key) || 0) + amount) on a Map kept as its entries
\* <<key, total>> in insertion order.
AddToBucket(map, key, amount) ==
    LET at == {i \in DOMAIN map : map[i][1] = key}
    IN  IF at = {} THEN Append(map, <<key, 0 + amount>>)
        ELSE [i \in DOMAIN map |->
                 IF i \in at THEN <<key, map[i][2] + amount>> ELSE map[i]]

\* The Map after the forEach.
RECURSIVE GroupInto(_, _, _, _)
GroupInto(map, txs, per, tz) ==
    IF txs = <<>> THEN map
    ELSE GroupInto(AddToBucket(map, BucketKey(Head(txs), per, tz),
                               Head(txs).amount),
                   Tail(txs), per, tz)

\* .sort(([a], [b]) => a.localeCompare(b)) on the entries
RECURSIVE SortEntries(_)
SortEntries(entries) ==
    IF entries = <<>> THEN <<>>
    ELSE LET sorted == SortEntries(SubSeq(entries, 1, Len(entries) - 1))
             x      == entries[Len(entries)]
             after  == {i \in DOMAIN sorted :
                           localeCompare(sorted[i][1], x[1]) > 0}
             at     == IF after = {} THEN Len(sorted) + 1
                       ELSE CHOOSE i \in after : \A j \in after : i <= j
         IN  SubSeq(sorted, 1, at - 1) \o <<x>> \o SubSeq(sorted, at, Len(sorted))

grouped(txs, per, code, tz) ==
    SortEntries(GroupInto(<<>>, filtered(txs, code), per, tz))

trend == grouped(transactions, period, chartCurrency, timezone)

\* The parent renders the chart with new props.
SpendingLineChart(per, code) ==
    /\ period' = per
    /\ chartCurrency' = code
    /\ UNCHANGED <<pc, transactions, showAddForm, defaultCurrency, formData,
                   localStorage, queued, clock, listVars, timezone, chartVars,
                   exportVars>>

(***************************************************************************)
(* The trend chart over any transaction sequence and any time zone         *)
(***************************************************************************)
TrendRecords ==
    { ListRecord("expense", "Food & Dining", 5, "2024-01-05", "", <<"USD">>),
      ListRecord("expense", "Shopping", 12, "2024-01-07", "", <<>>),
      ListRecord("expense", "Food & Dining", 30, "2024-02-01", "", <<"USD">>),
      ListRecord("income", "Salary", 12, "2024-01-05", "", <<"USD">>),
      ListRecord("expense", "Shopping", 5, "2023-12-31", "", <<"EUR">>),
      ListRecord("expense", "Shopping", 12, "0999-12-31", "", <<"USD">>),
      ListRecord("expense", "Shopping", 30, "", "", <<"USD">>) }

TrendInputs == UNION {[1..n -> TrendRecords] : n \in 0..MaxTx}

\* Offsets from UTC of the hosts considered: New York, London, Douala.
Timezones == {-300, 0, 60}

InitTrend ==
    /\ pc = "idle"
    /\ transactions \in {AssignIds(txs) : txs \in TrendInputs}
    /\ showAddForm = FALSE
    /\ defaultCurrency = "USD"
    /\ clock = MaxTx
    /\ formData = InitialFormData(clock)
    /\ localStorage =
          SaveCurrency(SaveTransactions(StorageOf(<<>>, <<>>), transactions),
                       defaultCurrency)
    /\ queued = NoUpdates
    /\ ListInit
    /\ period = "monthly"
    /\ chartCurrency = "USD"
    /\ timezone \in Timezones
    /\ selectedCurrency = "USD"
    /\ ExportInit

NextTrend ==
    \/ \E per \in {"weekly", "monthly"}, code \in {"USD", "EUR"} :
          SpendingLineChart(per, code)
    \/ \E id \in AggIds : deleteTransaction(id)

SpecTrend == InitTrend /\ [][NextTrend]_vars

(***************************************************************************)
(* Properties of the trend chart                                           *)
(***************************************************************************)
\* The store's expense records of the chart's currency.
TrendSources ==
    {i \in DOMAIN transactions :
        /\ transactions[i].type = "expense"
        /\ CountsAs(transactions[i], chartCurrency)}

KeyOf(i) == BucketKey(transactions[i], period, timezone)

\* a is strictly before b in the order of the code units.
KeyBefore(a, b) ==
    LET units(cs) == [i \in DOMAIN cs |-> IndexIn(CodeUnits, cs[i])]
    IN  CompareRanks(units(a), units(b)) < 0

\* C19: the trend has one entry per distinct bucket key of the expense
\* records of the chart's currency, each entry's total is the sum of the
\* amounts of exactly those records, and the entries are in strictly
\* ascending key order.
C19_TrendBuckets ==
    LET entries == trend
        keys    == [i \in TrendSources |-> KeyOf(i)]
    IN  /\ {entries[k][1] : k \in DOMAIN entries} = {keys[i] : i \in TrendSources}
        /\ Len(entries) = Cardinality({keys[i] : i \in TrendSources})
        /\ \A k \in DOMAIN entries :
              entries[k][2] =
                 SumOver(transactions,
                         {i \in TrendSources : keys[i] = entries[k][1]})
        /\ \A k \in DOMAIN entries :
              k < Len(entries) => KeyBefore(entries[k][1], entries[k + 1][1])

C19_Witness ==
    /\ period = "monthly"
    /\ chartCurrency = "USD"
    /\ Len(transactions) = 3
    /\ trend = << <<<<"2", "0", "2", "4", "-", "0", "1">>, 17>>,
                  <<<<"2", "0", "2", "4", "-", "0", "2">>, 30>> >>

(***************************************************************************)
(* ChartExporter.exportChart and the ChartExportButton that calls it       *)
(***************************************************************************)
\* Largest number of downloads followed.
MaxDownloads == 2

\* The layout box of a region when it is captured: offsetWidth or
\* offsetHeight is 0, or neither is.
RegionSizes == {"zero", "positive"}

\* How the promise of html2canvas settles for a region of that size: with a
\* canvas (one without pixels for a region without size), or rejected.
CaptureOutcomes(size) ==
    IF size = "zero" THEN {"emptyCanvas", "rejects"} ELSE {"canvas", "rejects"}

\* Whether jsPDF accepts the image while the document is assembled; it
\* cannot decode the data of a canvas without pixels.
AssemblyOutcomes == {"ok", "throws"}

AssemblyThrows(capture, assembly) ==
    capture = "emptyCanvas" \/ assembly = "throws"

\* exportChart after its await: "saved" when a file went to the browser,
\* "throws" when the catch block rethrew 'Failed to export chart'.  The
\* PNG branch links to canvas.toDataURL whatever the size of the canvas.
exportChart(capture, format, assembly) ==
    IF capture = "rejects" THEN "throws"
    ELSE IF format = "png" THEN "saved"
    ELSE IF AssemblyThrows(capture, assembly) THEN "throws"
    ELSE "saved"

\* chartRef.current: the region is rendered only when it has data.
RegionPresent(b) ==
    IF b = "expenses" THEN pieData(transactions, selectedCurrency) # <<>>
    ELSE filteredTransactions(transactions, selectedCurrency) # <<>>

ExportFailed(description) ==
    <<[title |-> "Export Failed", description |-> description,
       variant |-> "destructive"]>>

ExportSuccessful(format) ==
    <<[title |-> "Export Successful", description |-> format,
       variant |-> "default"]>>

\* The trigger takes clicks whatever the busy flag says.
ButtonAlwaysEnabled(b) == TRUE

\* disabled={isExporting} on the trigger of the button's menu
ButtonEnabled(b) == ~isExporting[b]

\* A menu item of an enabled button: handleExport up to its await.
handleExport(b, format) ==
    /\ pc = "idle"
    /\ transactions # <<>>
    /\ ButtonEnabled(b)
    /\ downloads < MaxDownloads
    /\ IF ~RegionPresent(b)
       THEN /\ toast' = ExportFailed("Chart element not found")
            /\ UNCHANGED <<isExporting, inFlight>>
       ELSE /\ isExporting' = [isExporting EXCEPT ![b] = TRUE]
            /\ inFlight' = [inFlight EXCEPT ![b] = Append(@, format)]
            /\ UNCHANGED toast
    /\ UNCHANGED <<pc, transactions, showAddForm, defaultCurrency, formData,
                   localStorage, queued, clock, listVars, trendVars, chartVars,
                   isExportingAll, exportAll, documentBody, downloads, multi,
                   saved>>

\* The capture settles and the handler ends without its finally block.
captureSettlesKeepingFlag(b, size, capture, assembly) ==
    /\ inFlight[b] # <<>>
    /\ capture \in CaptureOutcomes(size)
    /\ inFlight' = [inFlight EXCEPT ![b] = Tail(@)]
    /\ UNCHANGED <<pc, transactions, showAddForm, defaultCurrency, formData,
                   localStorage, queued, clock, listVars, trendVars, chartVars,
                   isExporting, isExportingAll, exportAll, documentBody,
                   toast, downloads, multi, saved>>

\* The capture of a per-chart export settles: the rest of exportChart and of
\* handleExport, its finally block included.
captureSettles(b, size, capture, assembly) ==
    /\ inFlight[b] # <<>>
    /\ capture \in CaptureOutcomes(size)
    /\ LET format == Head(inFlight[b])
           result == exportChart(capture, format, assembly)
       IN  /\ downloads' = IF result = "saved" THEN downloads + 1 ELSE downloads
           /\ saved' = IF result = "saved"
                       THEN <<[name |-> b, format |-> format, image |-> capture]>>
                       ELSE saved
           /\ toast' = IF result = "saved" THEN ExportSuccessful(format)
                       ELSE ExportFailed("Failed to export chart. Please try again.")
    /\ isExporting' = [isExporting EXCEPT ![b] = FALSE]
    /\ inFlight' = [inFlight EXCEPT ![b] = Tail(@)]
    /\ UNCHANGED <<pc, transactions, showAddForm, defaultCurrency, formData,
                   localStorage, queued, clock, listVars, trendVars, chartVars,
                   isExportingAll, exportAll, documentBody, multi>>

\* The chart's currency select, shown when the records span more than one
\* currency.
setSelectedCurrency(c) ==
    /\ pc = "idle"
    /\ transactions # <<>>
    /\ Cardinality(uniqueCurrencies) > 1
    /\ c \in uniqueCurrencies
    /\ selectedCurrency' = c
    /\ UNCHANGED <<pc, transactions, showAddForm, defaultCurrency, formData,
                   localStorage, queued, clock, listVars, trendVars, exportVars>>

(***************************************************************************)
(* ChartExporter.exportMultipleCharts                                      *)
(***************************************************************************)
\* A page: the image drawn on it, its "Page i of n" label as <<i, n>>, and
\* whether addPage made it.
BlankPage == [image |-> <<>>, label |-> <<>>, breakBefore |-> FALSE]

\* new jsPDF('landscape', 'mm', 'a4'): the document starts with one page.
NewPdf == <<BlankPage>>

\* pdf.addPage()
addPage(pdf) == Append(pdf, [BlankPage EXCEPT !.breakBefore = TRUE])

\* pdf.addImage and the page label, on the current (last) page.
DrawChart(pdf, element, i, n) ==
    [pdf EXCEPT ![Len(pdf)] = [@ EXCEPT !.image = <<element>>,
                                        !.label = <<i, n>>]]

\* A new page before every element, the first included.
NewPageAlways(pdf, i) == addPage(pdf)

\* if (i > 0) pdf.addPage(), for the i-th element counted from 1
NewPageIfNotFirst(pdf, i) == IF i > 1 THEN addPage(pdf) ELSE pdf

\* The call up to its first await, or up to its end when there is nothing
\* to capture: the loop body does not run and the new document is saved.
BeginExportMultiple(elements) ==
    IF elements = <<>>
    THEN /\ multi' = [pc |-> "returned", elements |-> elements]
         /\ downloads' = downloads + 1
         /\ saved' = <<NewPdf>>
    ELSE /\ multi' = [pc |-> "capturing", elements |-> elements, i |-> 1,
                      pdf |-> NewPageIfNotFirst(NewPdf, 1)]
         /\ UNCHANGED <<downloads, saved>>

\* The awaited capture of element i settles: the rest of the iteration,
\* then the next iteration up to its await, or pdf.save after the last.
\* A rejected capture or a throwing addImage leaves the function at once.
ContinueExportMultiple(capture, assembly) ==
    LET n    == Len(multi.elements)
        i    == multi.i
        page == DrawChart(multi.pdf, multi.elements[i], i, n)
    IN  IF capture = "rejects" \/ AssemblyThrows(capture, assembly)
        THEN /\ multi' = [pc |-> "thrown", elements |-> multi.elements]
             /\ UNCHANGED <<downloads, saved>>
        ELSE IF i < n
        THEN /\ multi' = [multi EXCEPT !.i = i + 1, !.pdf = NewPageIfNotFirst(page, i + 1)]
             /\ UNCHANGED <<downloads, saved>>
        ELSE /\ multi' = [pc |-> "returned", elements |-> multi.elements]
             /\ downloads' = downloads + 1
             /\ saved' = <<page>>

\* Largest number of elements handed to exportMultipleCharts.
MaxElements == 3

ElementLists ==
    UNION {[1..n -> {"expense-breakdown", "monthly-trends"}] : n \in 0..MaxElements}

\* A caller other than Export All calls exportMultipleCharts.
exportMultipleCharts(elements) ==
    /\ exportAll.pc = "idle"
    /\ multi.pc # "capturing"
    /\ downloads < MaxDownloads
    /\ BeginExportMultiple(elements)
    /\ UNCHANGED <<pc, transactions, showAddForm, defaultCurrency, formData,
                   localStorage, queued, clock, listVars, trendVars, chartVars,
                   isExporting, inFlight, isExportingAll, exportAll,
                   documentBody, toast>>

(***************************************************************************)
(* Index: Export All                                                       *)
(***************************************************************************)
\* Largest number of temporary containers left in document.body.
MaxNodes == 2

\* disabled={isExportingAll || transactions.length === 0}
ExportAllEnabled == ~isExportingAll /\ transactions # <<>>

\* The trend region is pushed before the breakdown region.
ExportAllElementsTrendFirst(txs, code) ==
    (IF filteredTransactions(txs, code) # <<>>
     THEN <<"monthly-trends">> ELSE <<>>)
       \o (IF pieData(txs, code) # <<>> THEN <<"expense-breakdown">> ELSE <<>>)

\* The elements found in the temporary rendering, breakdown first: each
\* region is rendered only when the default currency has data for it.
ExportAllElements(txs, code) ==
    (IF pieData(txs, code) # <<>> THEN <<"expense-breakdown">> ELSE <<>>)
       \o (IF filteredTransactions(txs, code) # <<>>
           THEN <<"monthly-trends">> ELSE <<>>)

\* tempRoot.unmount(); removeChild(tempContainer); removeChild(loadingDiv)
CleanUp(nodes) ==
    [tempContainer |-> nodes.tempContainer - 1,
     loadingDiv |-> nodes.loadingDiv - 1,
     tempRoot |-> nodes.tempRoot - 1]

\* The Export All button: handleExportAllCharts up to its first await.  The
\* closure keeps the transactions and the default currency of this render.
handleExportAllCharts ==
    /\ pc = "idle"
    /\ ExportAllEnabled
    /\ multi.pc # "capturing"
    /\ downloads < MaxDownloads
    /\ documentBody.tempContainer < MaxNodes
    /\ isExportingAll' = TRUE
    /\ documentBody' = [documentBody EXCEPT !.tempContainer = @ + 1,
                                            !.loadingDiv = @ + 1]
    /\ exportAll' = [pc |-> "importRoot", transactions |-> transactions,
                     defaultCurrency |-> defaultCurrency]
    /\ UNCHANGED <<pc, transactions, showAddForm, defaultCurrency, formData,
                   localStorage, queued, clock, listVars, trendVars, chartVars,
                   isExporting, inFlight, toast, downloads, multi, saved>>

\* import('react-dom/client') resolves: createRoot(tempContainer), then the
\* second import is awaited.
rootImported ==
    /\ exportAll.pc = "importRoot"
    /\ exportAll' = [exportAll EXCEPT !.pc = "importChart"]
    /\ documentBody' = [documentBody EXCEPT !.tempRoot = @ + 1]
    /\ UNCHANGED <<pc, transactions, showAddForm, defaultCurrency, formData,
                   localStorage, queued, clock, listVars, trendVars, chartVars,
                   isExporting, inFlight, isExportingAll, toast, downloads,
                   multi, saved>>

\* import('../components/TransactionChart') resolves: tempRoot.render, then
\* the settling delay is awaited.
chartImported ==
    /\ exportAll.pc = "importChart"
    /\ exportAll' = [exportAll EXCEPT !.pc = "settling"]
    /\ UNCHANGED <<pc, transactions, showAddForm, defaultCurrency, formData,
                   localStorage, queued, clock, listVars, trendVars, chartVars,
                   isExporting, inFlight, isExportingAll, documentBody, toast,
                   downloads, multi, saved>>

\* setTimeout(resolve, 3000) fires: the regions are looked up; with none the
\* handler cleans up and ends, otherwise exportMultipleCharts is called and
\* awaited.
settled ==
    /\ exportAll.pc = "settling"
    /\ LET elements == ExportAllElements(exportAll.transactions,
                                         exportAll.defaultCurrency)
       IN  IF elements = <<>>
           THEN /\ documentBody' = CleanUp(documentBody)
                /\ isExportingAll' = FALSE
                /\ exportAll' = NoExportAll
                /\ UNCHANGED <<multi, downloads, saved>>
           ELSE /\ BeginExportMultiple(elements)
                /\ exportAll' = [exportAll EXCEPT !.pc = "exporting"]
                /\ UNCHANGED <<documentBody, isExportingAll>>
    /\ UNCHANGED <<pc, transactions, showAddForm, defaultCurrency, formData,
                   localStorage, queued, clock, listVars, trendVars, chartVars,
                   isExporting, inFlight, toast>>

\* A capture of exportMultipleCharts settles.  When that ends the call made
\* by Export All, the handler goes on: after a return it cleans up, after
\* an exception its catch block logs to the console; finally clears the flag.
multiCaptureSettles(size, capture, assembly) ==
    /\ multi.pc = "capturing"
    /\ capture \in CaptureOutcomes(size)
    /\ ContinueExportMultiple(capture, assembly)
    /\ IF exportAll.pc = "exporting" /\ multi'.pc # "capturing"
       THEN /\ documentBody' = IF multi'.pc = "returned" THEN CleanUp(documentBody)
                               ELSE documentBody
            /\ isExportingAll' = FALSE
            /\ exportAll' = NoExportAll
       ELSE UNCHANGED <<documentBody, isExportingAll, exportAll>>
    /\ UNCHANGED <<pc, transactions, showAddForm, defaultCurrency, formData,
                   localStorage, queued, clock, listVars, trendVars, chartVars,
                   isExporting, inFlight, toast>>

\* The notification leaves the screen.
dismissToast ==
    /\ toast # <<>>
    /\ toast' = <<>>
    /\ UNCHANGED <<pc, transactions, showAddForm, defaultCurrency, formData,
                   localStorage, queued, clock, listVars, trendVars, chartVars,
                   isExporting, inFlight, isExportingAll, exportAll,
                   documentBody, downloads, multi, saved>>

(***************************************************************************)
(* The export controls over a loaded store                                 *)
(***************************************************************************)
ExportStores ==
    { <<ListRecord("expense", "Food & Dining", 5, "2024-01-05", "", <<"USD">>),
        ListRecord("income", "Salary", 12, "2024-01-05", "", <<"EUR">>)>>,
      <<ListRecord("income", "Salary", 12, "2024-01-05", "", <<"USD">>)>> }

InitExport ==
    /\ pc = "idle"
    /\ transactions \in {AssignIds(txs) : txs \in ExportStores}
    /\ showAddForm = FALSE
    /\ defaultCurrency = "USD"
    /\ clock = MaxTx
    /\ formData = InitialFormData(clock)
    /\ localStorage =
          SaveCurrency(SaveTransactions(StorageOf(<<>>, <<>>), transactions),
                       defaultCurrency)
    /\ queued = NoUpdates
    /\ ViewInit

NextExport ==
    \/ \E b \in Buttons, format \in {"png", "pdf"} : handleExport(b, format)
    \/ \E b \in Buttons, size \in RegionSizes,
          capture \in {"canvas", "emptyCanvas", "rejects"},
          assembly \in AssemblyOutcomes :
          captureSettles(b, size, capture, assembly)
    \/ \E c \in Range(CURRENCIES) : setSelectedCurrency(c)
    \/ \E c \in Range(CURRENCIES) : setDefaultCurrency(c)
    \/ handleExportAllCharts
    \/ rootImported
    \/ chartImported
    \/ settled
    \/ \E size \in RegionSizes, capture \in {"canvas", "emptyCanvas", "rejects"},
          assembly \in AssemblyOutcomes :
          multiCaptureSettles(size, capture, assembly)
    \/ dismissToast

SpecExport == InitExport /\ [][NextExport]_vars

\* A pending capture settles, a pending import resolves and the timer
\* fires: the event loop runs every continuation that is due.
SomeCaptureSettles(b) ==
    \E size \in RegionSizes, capture \in {"canvas", "emptyCanvas", "rejects"},
       assembly \in AssemblyOutcomes :
       captureSettles(b, size, capture, assembly)

SomeMultiCaptureSettles ==
    \E size \in RegionSizes, capture \in {"canvas", "emptyCanvas", "rejects"},
       assembly \in AssemblyOutcomes :
       multiCaptureSettles(size, capture, assembly)

\* The export runs alone, from either default currency: the preference is
\* applied after the chart has mounted with 'USD'.
InitRuns ==
    /\ pc = "idle"
    /\ transactions \in {AssignIds(txs) : txs \in ExportStores}
    /\ showAddForm = FALSE
    /\ defaultCurrency \in Range(CURRENCIES)
    /\ clock = MaxTx
    /\ formData = InitialFormData(clock)
    /\ localStorage =
          SaveCurrency(SaveTransactions(StorageOf(<<>>, <<>>), transactions),
                       defaultCurrency)
    /\ queued = NoUpdates
    /\ ViewInit

NextRuns ==
    \/ \E b \in Buttons, format \in {"png", "pdf"} : handleExport(b, format)
    \/ \E b \in Buttons : SomeCaptureSettles(b)
    \/ handleExportAllCharts
    \/ rootImported
    \/ chartImported
    \/ settled
    \/ SomeMultiCaptureSettles

FairSpecExport ==
    /\ InitRuns
    /\ [][NextRuns]_vars
    /\ \A b \in Buttons : WF_vars(SomeCaptureSettles(b))
    /\ WF_vars(rootImported)
    /\ WF_vars(chartImported)
    /\ WF_vars(settled)
    /\ WF_vars(SomeMultiCaptureSettles)

(***************************************************************************)
(* exportMultipleCharts on any list of elements                            *)
(***************************************************************************)
NextMulti ==
    \/ \E elements \in ElementLists : exportMultipleCharts(elements)
    \/ \E size \in RegionSizes, capture \in {"canvas", "emptyCanvas", "rejects"},
          assembly \in AssemblyOutcomes :
          multiCaptureSettles(size, capture, assembly)

SpecMulti == InitExport /\ [][NextMulti]_vars

(***************************************************************************)
(* Properties of the export controls                                       *)
(***************************************************************************)
\* C11: each export control has at most one export in flight, and while
\* one is in flight its busy flag is set and the control is disabled.
C11_OneExportInFlight ==
    /\ \A b \in Buttons :
          /\ Len(inFlight[b]) <= 1
          /\ inFlight[b] # <<>> => (isExporting[b] /\ ~ButtonEnabled(b))
    /\ exportAll.pc # "idle" => (isExportingAll /\ ~ExportAllEnabled)

C11_Witness ==
    /\ inFlight["expenses"] # <<>>
    /\ inFlight["trends"] # <<>>
    /\ exportAll.pc = "exporting"
    /\ multi.pc = "capturing"

\* C12: a busy flag that is set is eventually cleared, whatever the
\* outcome of the capture and of the assembly, so the control becomes
\* usable again.
C12_BusyFlagsClear ==
    /\ \A b \in Buttons : isExporting[b] ~> (~isExporting[b] /\ ButtonEnabled(b))
    /\ isExportingAll ~> (~isExportingAll /\ ExportAllEnabled)

C12_Witness ==
    /\ ~isExportingAll
    /\ multi.pc = "thrown"
    /\ ~isExporting["expenses"]
    /\ toast = ExportFailed("Failed to export chart. Please try again.")

\* A step in which an export attempt fails: a per-chart export finds no
\* region, a per-chart export ends without a file, or the document
\* assembly called by Export All throws.
RegionMissingStep ==
    \E b \in Buttons, format \in {"png", "pdf"} :
        handleExport(b, format) /\ ~RegionPresent(b)

PerChartFailsStep ==
    \E b \in Buttons :
        /\ Len(inFlight'[b]) < Len(inFlight[b])
        /\ downloads' = downloads

ExportAllFailsStep ==
    /\ exportAll.pc = "exporting"
    /\ multi'.pc = "thrown"

\* C13: every failed export attempt, from a chart's button or from Export
\* All, ends with the failure notification on screen.
C13_FailuresAreNotified ==
    [][(RegionMissingStep \/ PerChartFailsStep \/ ExportAllFailsStep)
          => (toast' # <<>> /\ toast'[1].title = "Export Failed")]_vars

\* C14: the export of a region without size fails: no file is downloaded,
\* the failure is notified, and the store, the persisted values and the
\* selected currencies stay as they are.
C14_EmptyCaptureFails ==
    [][\A b \in Buttons, capture \in {"emptyCanvas", "rejects"},
          assembly \in AssemblyOutcomes :
          captureSettles(b, "zero", capture, assembly) =>
             /\ downloads' = downloads
             /\ toast' # <<>> /\ toast'[1].title = "Export Failed"
             /\ UNCHANGED <<transactions, localStorage, defaultCurrency,
                            selectedCurrency>>]_vars

\* C20: Export All captures the breakdown region before the trend region,
\* one capture at a time, and no capture is in flight before the settling
\* delay has elapsed.
C20_CapturesInOrder ==
    /\ exportAll.pc \in {"importRoot", "importChart", "settling"}
          => multi.pc # "capturing"
    /\ (exportAll.pc = "exporting" /\ multi.pc = "capturing") =>
          \A i \in DOMAIN multi.elements :
              /\ i < multi.i => multi.pdf[i].image = <<multi.elements[i]>>
              /\ multi.elements[i] = "monthly-trends" =>
                    \A j \in DOMAIN multi.elements :
                        multi.elements[j] = "expense-breakdown" => j < i

C20_Witness ==
    /\ exportAll.pc = "exporting"
    /\ multi.pc = "capturing"
    /\ multi.i = 2
    /\ multi.elements = <<"expense-breakdown", "monthly-trends">>

(***************************************************************************)
(* Properties of exportMultipleCharts                                      *)
(***************************************************************************)
\* The document has one page per element, in order, labelled "Page i of n",
\* with a page break before every page but the first.
OnePagePerElement(doc, elements) ==
    /\ Len(doc) = Len(elements)
    /\ \A i \in DOMAIN doc :
          /\ doc[i].image = <<elements[i]>>
          /\ doc[i].label = <<i, Len(elements)>>
          /\ doc[i].breakBefore = (i > 1)

\* C15 (as stated): for any list of n elements the saved document has
\* exactly n pages, one per element in order, page i labelled "Page i of n",
\* with no page break before the first and one before each later page.
C15_OnePagePerElement ==
    multi.pc = "returned" => OnePagePerElement(saved[1], multi.elements)

\* C15 (amended): the same for every list of at least one element; for the
\* empty list the saved document is the single blank page the document is
\* created with.
C15_OnePagePerElementOrBlank ==
    multi.pc = "returned" =>
        IF multi.elements = <<>> THEN saved[1] = <<BlankPage>>
        ELSE OnePagePerElement(saved[1], multi.elements)

C15_Witness ==
    /\ multi.pc = "returned"
    /\ Len(multi.elements) = 3
    /\ Len(saved[1]) = 3
    /\ saved[1][3].label = <<3, 3>>

(***************************************************************************)
(* JavaScript numbers in the layout arithmetic of chartExport.ts           *)
(*                                                                         *)
(* A number is binary floating point: m * 2^e with a significand m of      *)
(* Precision bits, and every operation rounds its exact result to the      *)
(* nearest such number, ties to the even significand.  JavaScript keeps 53 *)
(* bits; the model keeps Precision.                                        *)
(***************************************************************************)
\* Bits of the significand.
Precision == 10

RECURSIVE Pow2(_)
Pow2(k) == IF k = 0 THEN 1 ELSE 2 * Pow2(k - 1)

\* Significands lie in LeastSignificand .. SignificandLimit - 1.
SignificandLimit == Pow2(Precision)

LeastSignificand == Pow2(Precision - 1)

\* The number nearest to n / d * 2^e, for n, d > 0.
RECURSIVE RoundToNearest(_, _, _)
RoundToNearest(n, d, e) ==
    IF n >= d * SignificandLimit THEN RoundToNearest(n, 2 * d, e + 1)
    ELSE IF n < d * LeastSignificand THEN RoundToNearest(2 * n, d, e - 1)
    ELSE LET q       == n \div d
             r       == n % d
             roundUp == 2 * r > d \/ (2 * r = d /\ q % 2 = 1)
             m       == IF roundUp THEN q + 1 ELSE q
         IN  IF m = SignificandLimit
             THEN [m |-> LeastSignificand, e |-> e + 1]
             ELSE [m |-> m, e |-> e]

Number(n, d, e) ==
    IF n = 0 THEN [m |-> 0, e |-> 0]
    ELSE IF n < 0 THEN [RoundToNearest(-n, d, e) EXCEPT !.m = -@]
    ELSE RoundToNearest(n, d, e)

\* The significand of a on the exponent e0 <= a.e.
Aligned(a, e0) == a.m * Pow2(a.e - e0)

LowerExponent(a, b) == IF a.e < b.e THEN a.e ELSE b.e

\* a < b, a + b, a - b, a * b, a / b
Less(a, b) ==
    LET e0 == LowerExponent(a, b) IN Aligned(a, e0) < Aligned(b, e0)

Plus(a, b) ==
    LET e0 == LowerExponent(a, b)
    IN  Number(Aligned(a, e0) + Aligned(b, e0), 1, e0)

Minus(a, b) ==
    LET e0 == LowerExponent(a, b)
    IN  Number(Aligned(a, e0) - Aligned(b, e0), 1, e0)

Times(a, b) == Number(a.m * b.m, 1, a.e + b.e)

Over(a, b) ==
    IF b.m < 0 THEN Number(-a.m, -b.m, a.e - b.e)
    ELSE Number(a.m, b.m, a.e - b.e)

\* Math.min
MathMin(a, b) == IF Less(b, a) THEN b ELSE a

(***************************************************************************)
(* Page layout of exportAsPDF and of exportMultipleCharts                  *)
(***************************************************************************)
\* pdf.internal.pageSize of new jsPDF('landscape', 'mm', 'a4'), in mm
pdfWidth == Number(297, 1, 0)

pdfHeight == Number(210, 1, 0)

topMargin == 25

bottomMargin == 20

leftRightMargin == 30

\* Applies the scale whether or not the image overflows.
ScaleAlways(imgWidth, imgHeight, maxWidth, maxHeight) ==
    LET scaleX == Over(maxWidth, imgWidth)
        scaleY == Over(maxHeight, imgHeight)
        scale  == MathMin(scaleX, scaleY)
    IN  [width |-> Times(imgWidth, scale), height |-> Times(imgHeight, scale)]

\* finalWidth and finalHeight: "Scale down if image is too large", the same
\* lines in both functions.
ScaleDown(imgWidth, imgHeight, maxWidth, maxHeight) ==
    IF Less(maxWidth, imgWidth) \/ Less(maxHeight, imgHeight)
    THEN LET scaleX == Over(maxWidth, imgWidth)
             scaleY == Over(maxHeight, imgHeight)
             scale  == MathMin(scaleX, scaleY)
         IN  [width  |-> Times(imgWidth, scale),
              height |-> Times(imgHeight, scale)]
    ELSE [width |-> imgWidth, height |-> imgHeight]

\* Available space for the chart on a page of exportMultipleCharts.
availableWidth ==
    Minus(pdfWidth, Times(Number(leftRightMargin, 1, 0), Number(2, 1, 0)))

availableHeight ==
    Minus(Minus(pdfHeight, Number(topMargin, 1, 0)), Number(bottomMargin, 1, 0))

\* The image is put against the top margin.
TopOfArea(finalHeight) == Number(topMargin, 1, 0)

\* y = topMargin + (availableHeight - finalHeight) / 2
CentredBelowTop(finalHeight) ==
    Plus(Number(topMargin, 1, 0),
         Over(Minus(availableHeight, finalHeight), Number(2, 1, 0)))

\* The rectangle handed to pdf.addImage on a page of exportMultipleCharts.
PageImage(canvas) ==
    LET final == ScaleDown(canvas.width, canvas.height,
                           availableWidth, availableHeight)
    IN  [x      |-> Over(Minus(pdfWidth, final.width), Number(2, 1, 0)),
         y      |-> CentredBelowTop(final.height),
         width  |-> final.width,
         height |-> final.height]

\* maxWidth and maxHeight of exportAsPDF: 20mm at each side, 30mm at top and
\* bottom.
maxWidth == Minus(pdfWidth, Number(40, 1, 0))

maxHeight == Minus(pdfHeight, Number(60, 1, 0))

\* The rectangle handed to pdf.addImage by exportAsPDF: y starts below the
\* title, or below the subtitle when there is one.
DocumentImage(canvas, subtitle) ==
    LET final == ScaleDown(canvas.width, canvas.height, maxWidth, maxHeight)
    IN  [x      |-> Over(Minus(pdfWidth, final.width), Number(2, 1, 0)),
         y      |-> IF subtitle THEN Number(45, 1, 0) ELSE Number(35, 1, 0),
         width  |-> final.width,
         height |-> final.height]

\* Sides of a canvas of html2canvas at scale 2, in pixels.
CanvasSides == {2, 100, 166, 238, 284, 308, 474, 616}

Canvases ==
    {[width |-> Number(w, 1, 0), height |-> Number(h, 1, 0)] :
        w \in CanvasSides, h \in CanvasSides}

\* exportAsPDF draws the canvas of one chart and saves the document.
exportAsPDF(canvas, subtitle) ==
    /\ pc = "idle"
    /\ downloads < MaxDownloads
    /\ downloads' = downloads + 1
    /\ saved' = <<[format |-> "pdf", subtitle |-> subtitle, canvas |-> canvas,
                   image |-> DocumentImage(canvas, subtitle)]>>
    /\ UNCHANGED <<pc, transactions, showAddForm, defaultCurrency, formData,
                   localStorage, queued, clock, listVars, trendVars, chartVars,
                   isExporting, inFlight, isExportingAll, exportAll,
                   documentBody, toast, multi>>

\* exportMultipleCharts draws the canvas of one element on its page.
exportPage(canvas) ==
    /\ pc = "idle"
    /\ downloads < MaxDownloads
    /\ downloads' = downloads + 1
    /\ saved' = <<[format |-> "pages", subtitle |-> TRUE, canvas |-> canvas,
                   image |-> PageImage(canvas)]>>
    /\ UNCHANGED <<pc, transactions, showAddForm, defaultCurrency, formData,
                   localStorage, queued, clock, listVars, trendVars, chartVars,
                   isExporting, inFlight, isExportingAll, exportAll,
                   documentBody, toast, multi>>

NextLayout ==
    \/ \E canvas \in Canvases, subtitle \in BOOLEAN : exportAsPDF(canvas, subtitle)
    \/ \E canvas \in Canvases : exportPage(canvas)

SpecLayout == InitExport /\ [][NextLayout]_vars

(***************************************************************************)
(* Properties of the page layout, stated on the exact values of the        *)
(* numbers                                                                 *)
(***************************************************************************)
Leq(a, b) == ~Less(b, a)

\* a * b <= c * d and a * b = c * d, on the exact products
ProductLeq(a, b, c, d) ==
    LET e0 == IF a.e + b.e < c.e + d.e THEN a.e + b.e ELSE c.e + d.e
    IN  a.m * b.m * Pow2(a.e + b.e - e0) <= c.m * d.m * Pow2(c.e + d.e - e0)

ProductEq(a, b, c, d) == ProductLeq(a, b, c, d) /\ ProductLeq(c, d, a, b)

\* a differs from the exact quotient b * c / d by at most k units in the
\* last place of a.
WithinUlps(a, b, c, d, k) ==
    LET e1    == b.e + c.e - d.e
        e0    == IF a.e < e1 THEN a.e ELSE e1
        left  == a.m * d.m * Pow2(a.e - e0)
        right == b.m * c.m * Pow2(e1 - e0)
        slack == k * d.m * Pow2(a.e - e0)
    IN  left - right <= slack /\ right - left <= slack

One == Number(1, 1, 0)

\* The area the scaling is given: the content area of a page of
\* exportMultipleCharts, the margins of exportAsPDF.
AreaWidth(doc) == IF doc.format = "pages" THEN availableWidth ELSE maxWidth

AreaHeight(doc) == IF doc.format = "pages" THEN availableHeight ELSE maxHeight

Fits(doc) ==
    Leq(doc.canvas.width, AreaWidth(doc)) /\ Leq(doc.canvas.height, AreaHeight(doc))

\* The width is the side that binds: areaWidth / w <= areaHeight / h.
WidthBinds(doc) ==
    ProductLeq(AreaWidth(doc), doc.canvas.height, AreaHeight(doc), doc.canvas.width)

FreeSpace(doc) ==
    LET image == doc.image
        e0    == CHOOSE e \in {0, image.x.e, image.y.e, image.width.e,
                               image.height.e, pdfWidth.e, pdfHeight.e} :
                     \A f \in {0, image.x.e, image.y.e, image.width.e,
                               image.height.e, pdfWidth.e, pdfHeight.e} : e <= f
        unit  == Pow2(0 - e0)
        x     == Aligned(image.x, e0)
        y     == Aligned(image.y, e0)
    IN  [left  |-> x - leftRightMargin * unit,
         right |-> Aligned(pdfWidth, e0) - leftRightMargin * unit
                     - (x + Aligned(image.width, e0)),
         above |-> y - topMargin * unit,
         below |-> Aligned(pdfHeight, e0) - bottomMargin * unit
                     - (y + Aligned(image.height, e0)),
         ulp   |-> Pow2(pdfWidth.e - e0)]

Midpoints(doc) ==
    LET image == doc.image
        e0    == CHOOSE e \in {-Precision, image.width.e, image.height.e} :
                     \A f \in {-Precision, image.width.e, image.height.e} : e <= f
    IN  [across |-> 2 * Aligned(image.x, e0) + Aligned(image.width, e0),
         down   |-> 2 * Aligned(image.y, e0) + Aligned(image.height, e0),
         page   |-> Aligned(pdfWidth, e0),
         ulp    |-> Pow2(pdfWidth.e - e0)]

\* C23: in a single-chart document the bitmap is centred in the space that
\* remains below the title/subtitle and above the timestamp, horizontally
\* and vertically.  Rounding is allowed for: one unit in the last place of
\* the page width.  Whatever that space is taken to be, it is the same for
\* two documents that both have or both lack a subtitle, so centred images
\* have the same vertical midpoint in both, and the horizontal midpoint is
\* the middle of the page.
C23_CentredInDocument ==
    [][(/\ saved # <<>> /\ saved[1].format = "pdf"
        /\ saved' # <<>> /\ saved'[1].format = "pdf"
        /\ saved'[1].subtitle = saved[1].subtitle)
       => LET before == Midpoints(saved[1])
              after  == Midpoints(saved'[1])
          IN  /\ after.across - after.page <= after.ulp
              /\ after.page - after.across <= after.ulp
              /\ after.down * before.ulp - before.down * after.ulp
                   <= 2 * before.ulp * after.ulp
              /\ before.down * after.ulp - after.down * before.ulp
                   <= 2 * before.ulp * after.ulp]_vars

(***************************************************************************)
(* Properties of the bucket keys                                           *)
(***************************************************************************)
\* C24: monthly keys are 7 characters (YYYY-MM) and weekly keys 8
\* (YYYY-Www), and for any two records with parseable dates d1 <= d2 the key
\* of d1 is not after the key of d2 in the order of the code units, for
\* both periods.
C24_KeysChronological ==
    \A i, j \in DOMAIN transactions :
        LET a == transactions[i]
            b == transactions[j]
        IN  (~IsInvalidDate(a.date) /\ ~IsInvalidDate(b.date)
               /\ DateGetTime(a.date) <= DateGetTime(b.date))
            => /\ Len(getMonthYear(a.date, timezone)) = 7
               /\ Len(getWeekYear(a.date, timezone)) = 8
               /\ \A per \in {"weekly", "monthly"} :
                     ~KeyBefore(BucketKey(b, per, timezone),
                                BucketKey(a, per, timezone))

\* The text of an invalid date.
InvalidDateText ==
    <<"I", "n", "v", "a", "l", "i", "d", " ", "D", "a", "t", "e">>

\* The key that getWeekYear and getMonthYear build from the NaN fields of an
\* invalid date.
NaNKey(per) ==
    IF per = "weekly" THEN NaNText \o <<"-", "W">> \o NaNText
    ELSE NaNText \o <<"-">> \o NaNText

\* The expense records of the chart's currency whose date cannot be parsed
\* are summed into the bucket of that key, and the other buckets are those
\* of the store without these records.
UnparsedBucketIs(key) ==
    LET entries   == trend
        unparsed  == {i \in TrendSources : IsInvalidDate(transactions[i].date)}
        parsed(t) == ~IsInvalidDate(t.date)
        other(e)  == e[1] # key
    IN  /\ unparsed # {} =>
             \E k \in DOMAIN entries :
                 entries[k] = <<key, SumOver(transactions, unparsed)>>
        /\ SelectSeq(entries, other) =
             grouped(SelectSeq(transactions, parsed), period, chartCurrency,
                     timezone)

\* C25 (as stated): an expense record whose date cannot be parsed is summed
\* into the bucket "Invalid Date", and the buckets of all other records are
\* the same as if that record were absent.
C25_InvalidDateBucket == UnparsedBucketIs(InvalidDateText)

\* C25 (amended): the bucket of these records has the key "NaN-NaN" in the
\* monthly trend and "NaN-WNaN" in the weekly one; the buckets of all other
\* records are the same as if these records were absent.
C25_NaNBucket == UnparsedBucketIs(NaNKey(period))

\* A weekly trend with a bucket of a parsed date and the bucket of the
\* record without a parseable date.
C25_Witness ==
    /\ period = "weekly"
    /\ chartCurrency = "USD"
    /\ Len(trend) = 2
    /\ trend[1][1] = <<"2", "0", "2", "4", "-", "W", "0", "1">>
    /\ trend[2] = <<<<"N", "a", "N", "-", "W", "N", "a", "N">>, 30>>

(***************************************************************************)
(* Properties of Export All's temporary rendering                          *)
(***************************************************************************)
\* C26: whenever Export All has finished, however it ended, neither the
\* temporary container nor the loading overlay is left in the page and the
\* temporary render root is unmounted.
C26_TemporaryNodesRemoved ==
    exportAll.pc = "idle" =>
        /\ documentBody.tempContainer = 0
        /\ documentBody.loadingDiv = 0
        /\ documentBody.tempRoot = 0

(***************************************************************************)
(* Properties of the chart's selected currency                             *)
(***************************************************************************)
\* C27: as long as the chart's own selector has not been used, the chart's
\* selected currency is the application's default currency once a render is
\* complete, also after the preference was loaded at start-up or changed in
\* the header.  The specification this is checked under has no step of the
\* chart's selector.
C27_ChartFollowsDefault ==
    pc = "idle" => selectedCurrency = defaultCurrency

(***************************************************************************)
(* Properties of the mount sequence                                        *)
(***************************************************************************)
\* The ids of the records in the text stored under the transactions key.
StoredIds(store) ==
    IF store[TRANSACTIONS_KEY] = <<>> THEN {}
    ELSE {store[TRANSACTIONS_KEY][1][i].id :
             i \in DOMAIN store[TRANSACTIONS_KEY][1]}

\* C28: no step of the mount sequence (load effect, save effects,
\* re-render) removes a record from the persisted sequence or replaces the
\* persisted default currency by another one: the storage holds every
\* record and the preference it held before start-up at every step.
C28_NothingLostDuringMount ==
    [][pc # "idle" =>
         /\ StoredIds(localStorage) \subseteq StoredIds(localStorage')
         /\ localStorage[CURRENCY_KEY] # <<>> =>
               localStorage'[CURRENCY_KEY] = localStorage[CURRENCY_KEY]]_vars

(***************************************************************************)
(* Frame of the list view's controls                                       *)
(***************************************************************************)
\* C29: a step that changes the search term, a filter or the sort key
\* leaves the store's sequence as it is, records and order, and writes
\* nothing to storage.
C29_ListControlsLeaveStore ==
    [][listVars' # listVars =>
         /\ transactions' = transactions
         /\ localStorage' = localStorage]_vars

\* The list is shown sorted by amount and filtered, in an order that is not
\* the store's, and storage holds the store's sequence.
C29_Witness ==
    /\ sortBy = "amount"
    /\ searchTerm = ""
    /\ filterType = "expense"
    /\ Len(transactions) = 3
    /\ Len(shown) = 2
    /\ shown[1] = transactions[3]
    /\ shown[2] = transactions[1]
    /\ localStorage[TRANSACTIONS_KEY] = <<JSONstringify(transactions)>>

(***************************************************************************)
(* Properties of the form's category                                       *)
(***************************************************************************)
\* C30: every record created through the form has a category of the
\* vocabulary of its own type, and so has the form whenever a category is
\* selected; a change of the type clears the selected category, and a
\* submission with an empty category adds nothing.
C30_CategoryOfOwnType ==
    /\ [](/\ \A i \in DOMAIN transactions :
               CreatedInSession(transactions[i]) =>
                   transactions[i].category
                       \in Range(categories(transactions[i].type))
          /\ formData.category # "" =>
                formData.category \in Range(categories(formData.type)))
    /\ [][/\ (\E v \in {"income", "expense"} : setType(v)) =>
                formData'.category = ""
          /\ (handleSubmit /\ formData.category = "") =>
                transactions' = transactions]_vars

\* An income record made by the form is in the store, and the form, reset
\* to an expense, was switched to income again and has an income category
\* selected.
C30_Witness ==
    /\ pc = "idle"
    /\ showAddForm
    /\ formData.type = "income"
    /\ formData.category \in Range(INCOME_CATEGORIES)
    /\ \E i \in DOMAIN transactions :
          /\ CreatedInSession(transactions[i])
          /\ transactions[i].type = "income"
          /\ transactions[i].category \in Range(INCOME_CATEGORIES)

====
